---- MODULE Spec2Model ----
(***************************************************************************)
(* A model of the PXdev chat gateway (src/server.js, src/services.js and   *)
(* the configuration module src/unnamed/part_000, required by both as     *)
(* './config').                                                            *)
(*                                                                         *)
(* JavaScript strings are TLA+ strings; the string helpers below give the  *)
(* String.prototype methods and the regular expressions the code uses,     *)
(* character by character, so that a substring test in the model matches   *)
(* exactly where `includes` or the regular expression matches in the code. *)
(***************************************************************************)
EXTENDS Integers, Sequences, FiniteSets, TLC

\* ------------------------------------------------------------------------
\* JavaScript string primitives
\* ------------------------------------------------------------------------

LowerAlpha == "abcdefghijklmnopqrstuvwxyz"
UpperAlpha == "ABCDEFGHIJKLMNOPQRSTUVWXYZ"
DigitChars == "0123456789"

CharAt(s, i) == SubSeq(s, i, i)

CharsOf(alpha) == {CharAt(alpha, i) : i \in 1..Len(alpha)}

LowerSet == CharsOf(LowerAlpha)
UpperSet == CharsOf(UpperAlpha)
DigitSet == CharsOf(DigitChars)

\* \s of a JavaScript regular expression, over the characters that occur
WhiteSet == {" ", "\n", "\t"}

\* \w of a JavaScript regular expression
WordSet == LowerSet \cup UpperSet \cup DigitSet \cup {"_"}

PosIn(alpha, c) == CHOOSE i \in 1..Len(alpha) : CharAt(alpha, i) = c

UpperMap == [c \in LowerSet |-> CharAt(UpperAlpha, PosIn(LowerAlpha, c))]
LowerMap == [c \in UpperSet |-> CharAt(LowerAlpha, PosIn(UpperAlpha, c))]

UpChar(c) == IF c \in LowerSet THEN UpperMap[c] ELSE c
LowChar(c) == IF c \in UpperSet THEN LowerMap[c] ELSE c

SetMin(S) == CHOOSE x \in S : \A y \in S : x <= y
SetMax(S) == CHOOSE x \in S : \A y \in S : x >= y

\* String.prototype.toUpperCase / toLowerCase (halving keeps the recursion shallow)
RECURSIVE toUpperCase(_)
toUpperCase(s) ==
  IF Len(s) = 0 THEN ""
  ELSE IF Len(s) = 1 THEN UpChar(s)
  ELSE LET h == Len(s) \div 2
       IN toUpperCase(SubSeq(s, 1, h)) \o toUpperCase(SubSeq(s, h + 1, Len(s)))

RECURSIVE toLowerCase(_)
toLowerCase(s) ==
  IF Len(s) = 0 THEN ""
  ELSE IF Len(s) = 1 THEN LowChar(s)
  ELSE LET h == Len(s) \div 2
       IN toLowerCase(SubSeq(s, 1, h)) \o toLowerCase(SubSeq(s, h + 1, Len(s)))

\* the 1-based positions at which p occurs in s
Occurrences(s, p) ==
  {i \in 1..(Len(s) - Len(p) + 1) : SubSeq(s, i, i + Len(p) - 1) = p}

\* String.prototype.indexOf, 1-based, 0 when p does not occur
indexOf(s, p) ==
  LET occ == Occurrences(s, p) IN IF occ = {} THEN 0 ELSE SetMin(occ)

\* the first occurrence of p at or after position from, 0 when there is none
indexOfFrom(s, p, from) ==
  LET occ == {i \in Occurrences(s, p) : i >= from}
  IN IF occ = {} THEN 0 ELSE SetMin(occ)

\* String.prototype.includes
includes(s, p) == Occurrences(s, p) # {}

\* String.prototype.endsWith
endsWith(s, p) == Len(s) >= Len(p) /\ SubSeq(s, Len(s) - Len(p) + 1, Len(s)) = p

startsWith(s, p) == Len(s) >= Len(p) /\ SubSeq(s, 1, Len(p)) = p

\* p occurs in s at position i
occursAt(s, i, p) ==
  i >= 1 /\ i + Len(p) - 1 <= Len(s) /\ SubSeq(s, i, i + Len(p) - 1) = p

\* String.prototype.trim
trim(s) ==
  LET keep == {i \in 1..Len(s) : CharAt(s, i) \notin WhiteSet}
  IN IF keep = {} THEN "" ELSE SubSeq(s, SetMin(keep), SetMax(keep))

\* s.slice(0, -1)
dropLast(s) == SubSeq(s, 1, Len(s) - 1)

\* the end (exclusive) of the longest run of characters of cs that starts at i
RunEnd(s, i, cs) ==
  LET stop == {j \in i..Len(s) : CharAt(s, j) \notin cs}
  IN IF stop = {} THEN Len(s) + 1 ELSE SetMin(stop)

\* \b of a regular expression, between positions i-1 and i
WordBoundary(s, i) ==
  LET before == i > 1 /\ i - 1 <= Len(s) /\ CharAt(s, i - 1) \in WordSet
      after == i >= 1 /\ i <= Len(s) /\ CharAt(s, i) \in WordSet
  IN before # after

\* parseInt of a run of digits
RECURSIVE parseInt(_)
parseInt(d) ==
  IF Len(d) = 0 THEN 0
  ELSE 10 * parseInt(dropLast(d)) + (PosIn(DigitChars, CharAt(d, Len(d))) - 1)

\* String(n) of a non-negative integer
RECURSIVE numToString(_)
numToString(n) ==
  IF n < 10 THEN CharAt(DigitChars, n + 1)
  ELSE numToString(n \div 10) \o CharAt(DigitChars, (n % 10) + 1)

\* s.replace(/<word>/i, by): the first occurrence, whatever its case
replaceFirstCI(s, word, by) ==
  LET at == indexOf(toUpperCase(s), toUpperCase(word))
  IN IF at = 0 THEN s
     ELSE SubSeq(s, 1, at - 1) \o by \o SubSeq(s, at + Len(word), Len(s))

\* ------------------------------------------------------------------------
\* SQL validation and augmentation (services.js)
\* ------------------------------------------------------------------------

NullNum == 0 - 1
NullStr == ""
NoDates == <<>>

\* /SELECT[\s\S]+?WHERE/i : a SELECT, at least one character, then a WHERE
matchesSelectWhere(query) ==
  LET u == toUpperCase(query)
      sel == indexOf(u, "SELECT")
  IN sel # 0 /\ indexOfFrom(u, "WHERE", sel + 7) # 0

\* /SELECT[\s\S]+?FROM[\s\S]+?WHERE/i
matchesSelectFromWhere(query) ==
  LET u == toUpperCase(query)
  IN \E sel \in Occurrences(u, "SELECT") :
       \E frm \in Occurrences(u, "FROM") :
         /\ frm >= sel + 7
         /\ indexOfFrom(u, "WHERE", frm + 5) # 0

validateSQL(query) ==
  LET upperQuery == toUpperCase(query)
  IN IF query = ""
       THEN [valid |-> FALSE, error |-> "Query is empty or null"]
     ELSE IF matchesSelectWhere(query) /\ ~matchesSelectFromWhere(query)
       THEN [valid |-> FALSE,
             error |-> "Invalid SQL: SELECT statement missing FROM clause before WHERE"]
     ELSE IF Cardinality(Occurrences(query, "/*")) # Cardinality(Occurrences(query, "*/"))
       THEN [valid |-> FALSE,
             error |-> "Invalid SQL: Unclosed comment block (/* without */)"]
     ELSE IF /\ includes(upperQuery, "SELECT")
             /\ ~includes(upperQuery, "FROM")
             /\ ~includes(upperQuery, "DUAL")
       THEN [valid |-> FALSE,
             error |-> "Invalid SQL: SELECT statement missing FROM clause"]
     ELSE [valid |-> TRUE, error |-> ""]

DefaultSafetyLimit == 1000

ensureQueryHasLimit(query, defaultLimit) ==
  IF query = "" THEN query
  ELSE LET trimmedQuery == trim(query)
           upperQuery == toUpperCase(trimmedQuery)
           cleanQuery == IF endsWith(trimmedQuery, ";")
                           THEN dropLast(trimmedQuery) ELSE trimmedQuery
       IN IF includes(upperQuery, "LIMIT") THEN trimmedQuery
          ELSE cleanQuery \o " LIMIT " \o numToString(defaultLimit) \o ";"

\* enhanced.search(/\s+(ORDER BY|LIMIT)/i), 1-based, 0 for -1
searchOrderByOrLimit(enhanced) ==
  LET u == toUpperCase(enhanced)
      hits == {i \in 1..Len(u) :
                 /\ CharAt(u, i) \in WhiteSet
                 /\ LET k == RunEnd(u, i, WhiteSet)
                    IN occursAt(u, k, "ORDER BY") \/ occursAt(u, k, "LIMIT")}
  IN IF hits = {} THEN 0 ELSE SetMin(hits)

\* the splice every filter of enhanceSQLQuery uses
spliceCondition(enhanced, hasWhere, cond) ==
  IF hasWhere
    THEN replaceFirstCI(enhanced, "WHERE", "WHERE " \o cond \o " AND")
  ELSE LET insertPoint == searchOrderByOrLimit(enhanced)
       IN IF insertPoint # 0
            THEN SubSeq(enhanced, 1, insertPoint - 1) \o " WHERE " \o cond
                   \o SubSeq(enhanced, insertPoint, Len(enhanced))
          ELSE enhanced \o " WHERE " \o cond

AutoLimit == 100

\* appendLimit without its test for a LIMIT that is there already
appendLimitUnchecked(enhanced, upperQuery, entities) ==
  IF entities.needsLimit
    THEN LET defaultLimit == IF entities.limit = NullNum \/ entities.limit = 0
                               THEN AutoLimit ELSE entities.limit
             stripped == IF endsWith(enhanced, ";")
                           THEN trim(dropLast(enhanced)) ELSE enhanced
         IN stripped \o " LIMIT " \o numToString(defaultLimit)
  ELSE enhanced

\* "Add LIMIT if missing"
appendLimit(enhanced, upperQuery, entities) ==
  IF entities.needsLimit /\ ~includes(upperQuery, "LIMIT")
    THEN LET defaultLimit == IF entities.limit = NullNum \/ entities.limit = 0
                               THEN AutoLimit ELSE entities.limit
             stripped == IF endsWith(enhanced, ";")
                           THEN trim(dropLast(enhanced)) ELSE enhanced
         IN stripped \o " LIMIT " \o numToString(defaultLimit)
  ELSE enhanced

\* "Add Active Filter"
addActiveFilter(enhanced, upperQuery, entities) ==
  IF entities.isActive /\ ~includes(upperQuery, "ISACTIVE")
    THEN spliceCondition(enhanced, includes(upperQuery, "WHERE"), "IsActive = 1")
  ELSE enhanced

\* A TLA+ string cannot hold a backtick: the model writes SQL's backtick as
\* this character, which no statement of the model uses otherwise.
BackTick == "~"

\* the test that guards "Exclude Deleted Records"
readsPatientTable(upperQuery) ==
  \/ includes(upperQuery, "FROM PATIENT")
  \/ includes(upperQuery, "FROM " \o BackTick \o "PATIENT" \o BackTick)

\* "Exclude Deleted Records"
excludeDeleted(enhanced, upperQuery, entities) ==
  IF /\ ~entities.includeDeleted
     /\ readsPatientTable(upperQuery)
     /\ ~includes(upperQuery, "PATSTATUS")
    THEN spliceCondition(enhanced, includes(upperQuery, "WHERE"), "(PatStatus != 2)")
  ELSE enhanced

dateColumns ==
  <<"AptDateTime", "ProcDate", "DateEntry", "CreatedDate", "ModifiedDate", "CommDateTime">>

\* "Add Date Range Filter"
addDateFilter(enhanced, upperQuery, entities) ==
  LET found == {i \in 1..Len(dateColumns) : includes(upperQuery, toUpperCase(dateColumns[i]))}
  IN IF entities.dateRange # NoDates /\ found # {}
       THEN LET dateColumn == dateColumns[SetMin(found)]
                dateFilter == "DATE(" \o dateColumn \o ") BETWEEN '"
                                \o entities.dateRange[1].startDate \o "' AND '"
                                \o entities.dateRange[1].endDate \o "'"
            IN spliceCondition(enhanced, includes(upperQuery, "WHERE"), dateFilter)
     ELSE enhanced

\* "Add State Filter"
addStateFilter(enhanced, upperQuery, entities) ==
  IF entities.state # NullStr
    THEN spliceCondition(enhanced, includes(upperQuery, "WHERE"),
                         "State = '" \o entities.state \o "'")
  ELSE enhanced

\* the definition of enhanceSQLQuery that is in force: the later of the two
\* function declarations of the file
enhanceSQLQuery(sqlQuery, entities) ==
  LET enhanced0 == trim(sqlQuery)
      upperQuery == toUpperCase(enhanced0)
      enhanced1 == appendLimit(enhanced0, upperQuery, entities)
      enhanced2 == addActiveFilter(enhanced1, upperQuery, entities)
      enhanced3 == excludeDeleted(enhanced2, upperQuery, entities)
      enhanced4 == addDateFilter(enhanced3, upperQuery, entities)
  IN addStateFilter(enhanced4, upperQuery, entities)


\* ------------------------------------------------------------------------
\* Dates (config module, src/unnamed/part_000)
\* ------------------------------------------------------------------------

\* The current date in the configured timezone, as the three numbers that
\* toLocaleString yields: the environment of the model.
TodayYear == 2024
TodayMonth == 3
TodayDay == 1

pad2(n) == IF n < 10 THEN "0" \o numToString(n) ELSE numToString(n)

\* `${year}-${month.padStart(2, '0')}-${day.padStart(2, '0')}`
formatYMD(y, m, d) == numToString(y) \o "-" \o pad2(m) \o "-" \o pad2(d)

isLeapYear(y) == (y % 4 = 0 /\ y % 100 # 0) \/ y % 400 = 0

daysInMonth(y, m) ==
  IF m = 2 THEN (IF isLeapYear(y) THEN 29 ELSE 28)
  ELSE IF m \in {4, 6, 9, 11} THEN 30 ELSE 31

\* date.setDate(date.getDate() - daysAgo): the calendar date daysAgo days before
RECURSIVE dateMinusDays(_, _, _, _)
dateMinusDays(y, m, d, daysAgo) ==
  IF daysAgo = 0 THEN [year |-> y, month |-> m, day |-> d]
  ELSE IF d > 1 THEN dateMinusDays(y, m, d - 1, daysAgo - 1)
  ELSE IF m > 1 THEN dateMinusDays(y, m - 1, daysInMonth(y, m - 1), daysAgo - 1)
  ELSE dateMinusDays(y - 1, 12, 31, daysAgo - 1)

getCurrentDateInTimezone == formatYMD(TodayYear, TodayMonth, TodayDay)

getDateDaysAgo(daysAgo) ==
  LET t == dateMinusDays(TodayYear, TodayMonth, TodayDay, daysAgo)
  IN formatYMD(t.year, t.month, t.day)

\* the length of the run of digits that starts at i
digitRun(s, i) == RunEnd(s, i, DigitSet) - i

\* The length of the match of dateRegex at i, 0 when it does not match there:
\* /\b(\d{1,2}[-\/]\d{1,2}[-\/]\d{2,4}|\d{4}-\d{2}-\d{2})\b/
dateTokenAt(s, i) ==
  LET n1 == digitRun(s, i)
      p2 == i + n1 + 1
      n2 == digitRun(s, p2)
      p3 == p2 + n2 + 1
      n3 == digitRun(s, p3)
      sepAt(k) == k <= Len(s) /\ CharAt(s, k) \in {"-", "/"}
      dashAt(k) == k <= Len(s) /\ CharAt(s, k) = "-"
      shortForm == /\ n1 \in 1..2 /\ sepAt(i + n1)
                   /\ n2 \in 1..2 /\ sepAt(p2 + n2)
                   /\ n3 \in 2..4
      isoForm == /\ n1 = 4 /\ dashAt(i + n1)
                 /\ n2 = 2 /\ dashAt(p2 + n2)
                 /\ n3 = 2
  IN IF /\ i <= Len(s) /\ WordBoundary(s, i)
        /\ (shortForm \/ isoForm)
        /\ WordBoundary(s, p3 + n3)
       THEN p3 + n3 - i
     ELSE 0

\* question.match(dateRegex) with the g flag: the matches, left to right
RECURSIVE dateTokensFrom(_, _)
dateTokensFrom(s, from) ==
  LET starts == {i \in from..Len(s) : dateTokenAt(s, i) > 0}
  IN IF starts = {} THEN <<>>
     ELSE LET i == SetMin(starts)
              n == dateTokenAt(s, i)
          IN <<SubSeq(s, i, i + n - 1)>> \o dateTokensFrom(s, i + n)

\* the pieces of dateStr between the separator sep
splitDate(dateStr, sep) ==
  LET a == indexOf(dateStr, sep)
      b == indexOfFrom(dateStr, sep, a + 1)
  IN <<SubSeq(dateStr, 1, a - 1), SubSeq(dateStr, a + 1, b - 1),
       SubSeq(dateStr, b + 1, Len(dateStr))>>

padStart2(t) == IF Len(t) < 2 THEN "0" \o t ELSE t

\* normalizeDate, for the shapes its three regular expressions accept; a token
\* of another shape (a two-digit year, mixed separators) goes to the Date
\* parser of the host, which the model does not cover: its inputs hold none.
normalizeDate(dateStr0) ==
  LET dateStr == trim(dateStr0)
      n1 == digitRun(dateStr, 1)
      n2 == digitRun(dateStr, n1 + 2)
      n3 == digitRun(dateStr, n1 + n2 + 3)
      whole == n1 + n2 + n3 + 2 = Len(dateStr)
      sep1 == CharAt(dateStr, n1 + 1)
      sep2 == CharAt(dateStr, n1 + n2 + 2)
  IN IF dateStr = "" THEN NullStr
     ELSE IF whole /\ n1 = 4 /\ n2 = 2 /\ n3 = 2 /\ sep1 = "-" /\ sep2 = "-"
       THEN dateStr
     ELSE IF whole /\ n1 \in 1..2 /\ n2 \in 1..2 /\ n3 = 4
             /\ sep1 = sep2 /\ sep1 \in {"/", "-"}
       THEN LET part == splitDate(dateStr, sep1)
            IN part[3] \o "-" \o padStart2(part[1]) \o "-" \o padStart2(part[2])
     ELSE NullStr

\* config.detectSingleDateFromQuestion: the date range extractSQLEntities uses
configDetectSingleDate(question) ==
  LET lowerQ == toLowerCase(question)
      today == getCurrentDateInTimezone
      yesterday == getDateDaysAgo(1)
      weekAgo == getDateDaysAgo(7)
      monthAgo == getDateDaysAgo(30)
      matches == dateTokensFrom(question, 1)
      start == normalizeDate(matches[1])
      end == IF Len(matches) >= 2 THEN normalizeDate(matches[2]) ELSE start
  IN IF includes(lowerQ, "today")
       THEN <<[startDate |-> today, endDate |-> today]>>
     ELSE IF includes(lowerQ, "yesterday")
       THEN <<[startDate |-> yesterday, endDate |-> yesterday]>>
     ELSE IF \/ includes(lowerQ, "last week") \/ includes(lowerQ, "past week")
             \/ includes(lowerQ, "this week")
       THEN <<[startDate |-> weekAgo, endDate |-> today]>>
     ELSE IF \/ includes(lowerQ, "last month") \/ includes(lowerQ, "past month")
             \/ includes(lowerQ, "this month")
       THEN <<[startDate |-> monthAgo, endDate |-> today]>>
     ELSE IF Len(matches) >= 1 /\ start # NullStr /\ end # NullStr
       THEN <<[startDate |-> start, endDate |-> end]>>
     ELSE NoDates


\* ------------------------------------------------------------------------
\* Date resolution of the AI-Voice context (services.js)
\* ------------------------------------------------------------------------

\* question.match(/(\d{4})-(\d{2})-(\d{2})/g): the matches, left to right
RECURSIVE isoDatesFrom(_, _)
isoDatesFrom(s, from) ==
  LET starts == {i \in from..(Len(s) - 9) :
                   /\ \A k \in {0, 1, 2, 3, 5, 6, 8, 9} : CharAt(s, i + k) \in DigitSet
                   /\ CharAt(s, i + 4) = "-" /\ CharAt(s, i + 7) = "-"}
  IN IF starts = {} THEN <<>>
     ELSE <<SubSeq(s, SetMin(starts), SetMin(starts) + 9)>>
            \o isoDatesFrom(s, SetMin(starts) + 10)

\* validateDateFormat of a match of the pattern: the Date built from it has
\* the year, month and day the string names
validateDateFormat(dateStr) ==
  /\ parseInt(SubSeq(dateStr, 6, 7)) \in 1..12
  /\ parseInt(SubSeq(dateStr, 9, 10))
       \in 1..daysInMonth(parseInt(SubSeq(dateStr, 1, 4)), parseInt(SubSeq(dateStr, 6, 7)))

\* today.getDay(): 0 for Sunday to 6 for Saturday
getDay(y, m, d) ==
  LET t == <<0, 3, 2, 5, 0, 3, 5, 1, 4, 6, 2, 4>>
      yy == IF m < 3 THEN y - 1 ELSE y
  IN (yy + (yy \div 4) - (yy \div 100) + (yy \div 400) + t[m] + d) % 7

\* detectSingleDateFromQuestion of services.js: explicit dates first, then the
\* keyword phrases. The Date arithmetic is that of a process whose local time
\* zone is UTC, where setDate moves whole calendar days.
detectSingleDateFromQuestion(question) ==
  LET lowerQ == toLowerCase(question)
      todayStr == getCurrentDateInTimezone
      dates == SelectSeq(isoDatesFrom(question, 1), validateDateFormat)
      weekday == getDay(TodayYear, TodayMonth, TodayDay)
  IN IF Len(dates) >= 1
       THEN <<[startDate |-> dates[1], endDate |-> dates[Len(dates)]]>>
     ELSE IF includes(lowerQ, "today")
       THEN <<[startDate |-> todayStr, endDate |-> todayStr]>>
     ELSE IF includes(lowerQ, "yesterday")
       THEN <<[startDate |-> getDateDaysAgo(1), endDate |-> getDateDaysAgo(1)]>>
     ELSE IF includes(lowerQ, "this week")
       THEN <<[startDate |-> getDateDaysAgo(weekday), endDate |-> todayStr]>>
     ELSE IF includes(lowerQ, "last week")
       THEN <<[startDate |-> getDateDaysAgo(weekday + 7),
               endDate |-> getDateDaysAgo(weekday + 1)]>>
     ELSE IF includes(lowerQ, "this month")
       THEN <<[startDate |-> formatYMD(TodayYear, TodayMonth, 1), endDate |-> todayStr]>>
     ELSE IF includes(lowerQ, "last month")
       THEN <<[startDate |-> IF TodayMonth = 1 THEN formatYMD(TodayYear - 1, 12, 1)
                             ELSE formatYMD(TodayYear, TodayMonth - 1, 1),
               endDate |-> getDateDaysAgo(TodayDay)]>>
     ELSE NoDates

\* ------------------------------------------------------------------------
\* Entity extraction for TXQL questions (services.js)
\* ------------------------------------------------------------------------

\* word occurs at i as /\bword\b/ would match it
wholeWordAt(s, i, word) ==
  occursAt(s, i, word) /\ WordBoundary(s, i) /\ WordBoundary(s, i + Len(word))

\* /\bword\b/.test(s)
hasWholeWord(s, word) == \E i \in 1..Len(s) : wholeWordAt(s, i, word)

\* The end (exclusive) of a match of [A-Z][a-z]+\s+[A-Z][a-z]+ at i, 0 when
\* it does not match there; every run is taken whole, as what follows the
\* pattern in each of its uses (\b or an apostrophe) lets no shorter run match.
titlePairEnd(s, i) ==
  LET e1 == RunEnd(s, i + 1, LowerSet)
      e2 == RunEnd(s, e1, WhiteSet)
      e3 == RunEnd(s, e2 + 1, LowerSet)
  IN IF /\ i <= Len(s) /\ CharAt(s, i) \in UpperSet
        /\ e1 > i + 1
        /\ e2 > e1
        /\ e2 <= Len(s) /\ CharAt(s, e2) \in UpperSet
        /\ e3 > e2 + 1
       THEN e3
     ELSE 0

\* /\b(?:for|patient|of)\s+([A-Z][a-z]+\s+[A-Z][a-z]+)\b/ : the capture of
\* the leftmost match, NullStr when there is none
nameAfterKeyword(question) ==
  LET nameStart(i, kw) == RunEnd(question, i + Len(kw), WhiteSet)
      matchAt(i, kw) ==
        /\ WordBoundary(question, i)
        /\ occursAt(question, i, kw)
        /\ nameStart(i, kw) > i + Len(kw)
        /\ titlePairEnd(question, nameStart(i, kw)) # 0
        /\ WordBoundary(question, titlePairEnd(question, nameStart(i, kw)))
      hits == {i \in 1..Len(question) : \E kw \in {"for", "patient", "of"} : matchAt(i, kw)}
  IN IF hits = {} THEN NullStr
     ELSE LET i == SetMin(hits)
              kw == CHOOSE k \in {"for", "patient", "of"} : matchAt(i, k)
              from == nameStart(i, kw)
          IN SubSeq(question, from, titlePairEnd(question, from) - 1)

\* /\b([A-Z][a-z]+\s+[A-Z][a-z]+)'s?\b/ : an apostrophe and then a word
\* character (the s itself, or with the s dropped whatever follows)
possessiveName(question) ==
  LET matchAt(i) ==
        LET e == titlePairEnd(question, i)
        IN /\ WordBoundary(question, i)
           /\ e # 0
           /\ occursAt(question, e, "'")
           /\ e + 1 <= Len(question)
           /\ CharAt(question, e + 1) \in WordSet
      hits == {i \in 1..Len(question) : matchAt(i)}
  IN IF hits = {} THEN NullStr
     ELSE SubSeq(question, SetMin(hits), titlePairEnd(question, SetMin(hits)) - 1)

\* lowerQ.match(/\bpatnum\s*=?\s*(\d+)/i) : the digits of the leftmost match
patNumDigits(lowerQ) ==
  LET u == toLowerCase(lowerQ)
      digitsAt(i) ==
        LET a == RunEnd(u, i + 6, WhiteSet)
            b == IF occursAt(u, a, "=") THEN a + 1 ELSE a
        IN RunEnd(u, b, WhiteSet)
      matchAt(i) == /\ WordBoundary(u, i)
                    /\ occursAt(u, i, "patnum")
                    /\ digitRun(u, digitsAt(i)) > 0
      hits == {i \in 1..Len(u) : matchAt(i)}
  IN IF hits = {} THEN NullStr
     ELSE LET d == digitsAt(SetMin(hits))
          IN SubSeq(u, d, d + digitRun(u, d) - 1)

\* lowerQ.match(/\b(?:top|first|limit)\s+(\d+)/) : the digits of the leftmost match
limitDigits(lowerQ) ==
  LET digitsAt(i, kw) == RunEnd(lowerQ, i + Len(kw), WhiteSet)
      matchAt(i, kw) ==
        /\ WordBoundary(lowerQ, i)
        /\ occursAt(lowerQ, i, kw)
        /\ digitsAt(i, kw) > i + Len(kw)
        /\ digitRun(lowerQ, digitsAt(i, kw)) > 0
      hits == {i \in 1..Len(lowerQ) : \E kw \in {"top", "first", "limit"} : matchAt(i, kw)}
  IN IF hits = {} THEN NullStr
     ELSE LET i == SetMin(hits)
              kw == CHOOSE k \in {"top", "first", "limit"} : matchAt(i, k)
              d == digitsAt(i, kw)
          IN SubSeq(lowerQ, d, d + digitRun(lowerQ, d) - 1)

\* the alternatives of statePattern, in its order
stateNames ==
  <<"Alabama", "Alaska", "Arizona", "Arkansas", "California", "Colorado",
    "Connecticut", "Delaware", "Florida", "Georgia", "Hawaii", "Idaho",
    "Illinois", "Indiana", "Iowa", "Kansas", "Kentucky", "Louisiana", "Maine",
    "Maryland", "Massachusetts", "Michigan", "Minnesota", "Mississippi",
    "Missouri", "Montana", "Nebraska", "Nevada", "New Hampshire", "New Jersey",
    "New Mexico", "New York", "North Carolina", "North Dakota", "Ohio",
    "Oklahoma", "Oregon", "Pennsylvania", "Rhode Island", "South Carolina",
    "South Dakota", "Tennessee", "Texas", "Utah", "Vermont", "Virginia",
    "Washington", "West Virginia", "Wisconsin", "Wyoming",
    "CA", "NY", "TX", "FL", "IL">>

\* question.match(statePattern): the text of the leftmost match, in the
\* question's own case; at one position the first alternative that matches
stateMatch(question) ==
  LET u == toUpperCase(question)
      altsAt(i) == {k \in 1..Len(stateNames) : wholeWordAt(u, i, toUpperCase(stateNames[k]))}
      hits == {i \in 1..Len(u) : WordBoundary(u, i) /\ altsAt(i) # {}}
  IN IF hits = {} THEN NullStr
     ELSE LET i == SetMin(hits)
              k == SetMin(altsAt(i))
          IN SubSeq(question, i, i + Len(stateNames[k]) - 1)

\* The fields of the entities that something reads (dateContext and tableType
\* are only logged).
extractSQLEntities(question) ==
  LET lowerQ == toLowerCase(question)
      byKeyword == nameAfterKeyword(question)
      patNum == patNumDigits(lowerQ)
      limitMatch == limitDigits(lowerQ)
  IN [patientName |-> IF byKeyword # NullStr THEN byKeyword ELSE possessiveName(question),
      patientNum |-> IF patNum # NullStr THEN parseInt(patNum) ELSE NullNum,
      dateRange |-> configDetectSingleDate(question),
      isActive |-> hasWholeWord(lowerQ, "active"),
      includeDeleted |-> hasWholeWord(lowerQ, "deleted"),
      state |-> stateMatch(question),
      limit |-> IF limitMatch # NullStr THEN parseInt(limitMatch) ELSE NullNum,
      needsLimit |-> limitMatch = NullStr /\ ~hasWholeWord(lowerQ, "all")]


\* ------------------------------------------------------------------------
\* Question classifiers and direct SQL builders (services.js)
\* ------------------------------------------------------------------------

\* keywords.some(keyword => lowerQ.includes(keyword))
includesAny(lowerQ, keywords) == \E k \in keywords : includes(lowerQ, k)

isNoteSummaryQuery(question) ==
  includesAny(toLowerCase(question),
    {"summarize notes", "summarize all notes", "summary of notes",
     "analyze notes", "review notes", "overview of notes",
     "what do the notes say", "tell me about the notes"})

\* /\d+\s+(patient|patnum)/i : digits, white space, then one of the two words
numberBeforePatient(lowerQ) ==
  \E i \in 1..Len(lowerQ) :
    /\ CharAt(lowerQ, i) \in DigitSet
    /\ LET w == RunEnd(lowerQ, i + 1, WhiteSet)
       IN w > i + 1 /\ (occursAt(lowerQ, w, "patient") \/ occursAt(lowerQ, w, "patnum"))

\* every pattern is tested with the i flag and has no anchors, so each is a
\* search for any of its alternatives in the lower-cased question
isMultiPatientPricingSearch(question) ==
  LET lowerQ == toLowerCase(question)
      hasSearchIntent == includesAny(lowerQ, {"find", "search", "extract", "list", "show", "get"})
      hasMultiplePattern == includesAny(lowerQ, {"patients", "patnum", "customers", "all"})
      hasPricingKeyword == includesAny(lowerQ, {"pricing", "price", "cost", "fee", "charge", "$", "payment"})
      hasNotesReference == includesAny(lowerQ, {"note", "commlog", "summary", "px summary"})
      hasNumberPattern == numberBeforePatient(lowerQ)
  IN \/ hasSearchIntent /\ hasMultiplePattern /\ hasPricingKeyword
     \/ hasSearchIntent /\ hasNumberPattern /\ hasPricingKeyword
     \/ hasSearchIntent /\ hasPricingKeyword /\ hasNotesReference

\* /\bnote|notes\b/i is (\bnote) or (notes\b)
isPricingFromNotesQuery(question) ==
  LET lowerQ == toLowerCase(question)
      hasNoteReference ==
        \E i \in 1..Len(lowerQ) :
          \/ WordBoundary(lowerQ, i) /\ occursAt(lowerQ, i, "note")
          \/ occursAt(lowerQ, i, "notes") /\ WordBoundary(lowerQ, i + 5)
      hasPricingKeyword == includesAny(lowerQ, {"pricing", "price", "cost", "fee", "charge", "payment", "bill"})
  IN hasNoteReference /\ hasPricingKeyword

\* question.match(/patnum\s*=?\s*(\d+)/i) : the digits of the leftmost match
\* (no word boundary before patnum here)
notePatNumDigits(question) ==
  LET u == toLowerCase(question)
      digitsAt(i) ==
        LET a == RunEnd(u, i + 6, WhiteSet)
            b == IF occursAt(u, a, "=") THEN a + 1 ELSE a
        IN RunEnd(u, b, WhiteSet)
      hits == {i \in 1..Len(u) : occursAt(u, i, "patnum") /\ digitRun(u, digitsAt(i)) > 0}
  IN IF hits = {} THEN NullStr
     ELSE LET d == digitsAt(SetMin(hits))
          IN SubSeq(u, d, d + digitRun(u, d) - 1)

\* the statement over procnote, patientnote and commlog; NullStr for the
\* null returned when the question names no PatNum
buildNoteQuerySQL(question) ==
  LET patNum == notePatNumDigits(question)
  IN IF patNum = NullStr THEN NullStr
     ELSE
       "SELECT \n" \o
       "    'Procedure Note' AS NoteType,\n" \o
       "    pn.EntryDateTime AS DateTime,\n" \o
       "    pn.Note\n" \o
       "FROM procnote pn\n" \o
       "INNER JOIN procedurelog pl ON pn.ProcNum = pl.ProcNum\n" \o
       "WHERE pl.PatNum = " \o
       patNum \o
       "\n" \o
       "\n" \o
       "UNION ALL\n" \o
       "\n" \o
       "SELECT \n" \o
       "    'Patient Note' AS NoteType, \n" \o
       "    NULL AS DateTime,\n" \o
       "    Medical AS Note\n" \o
       "FROM patientnote\n" \o
       "WHERE PatNum = " \o
       patNum \o
       "\n" \o
       "\n" \o
       "UNION ALL\n" \o
       "\n" \o
       "SELECT\n" \o
       "    'Patient Note (Field)' AS NoteType,\n" \o
       "    NULL AS DateTime,\n" \o
       "    FamFinancial AS Note\n" \o
       "FROM patientnote\n" \o
       "WHERE PatNum = " \o
       patNum \o
       "\n" \o
       "AND FamFinancial IS NOT NULL\n" \o
       "AND FamFinancial != ''\n" \o
       "\n" \o
       "UNION ALL\n" \o
       "\n" \o
       "SELECT\n" \o
       "    'Patient Note (Field)' AS NoteType,\n" \o
       "    NULL AS DateTime,\n" \o
       "    ApptPhone AS Note\n" \o
       "FROM patientnote\n" \o
       "WHERE PatNum = " \o
       patNum \o
       "\n" \o
       "AND ApptPhone IS NOT NULL\n" \o
       "AND ApptPhone != ''\n" \o
       "\n" \o
       "UNION ALL\n" \o
       "\n" \o
       "SELECT\n" \o
       "    'Communication Log' AS NoteType,\n" \o
       "    CommDateTime AS DateTime,\n" \o
       "    Note AS Note\n" \o
       "FROM commlog\n" \o
       "WHERE PatNum = " \o
       patNum \o
       "\n" \o
       "AND Note IS NOT NULL\n" \o
       "AND Note != ''\n" \o
       "\n" \o
       "ORDER BY DateTime DESC"

DefaultPricingLimit == 10

\* the count written before "patient" or "patnum", else the default
pricingSearchLimit(question) ==
  LET lowerQ == toLowerCase(question)
      matchAt(i) ==
        /\ CharAt(lowerQ, i) \in DigitSet
        /\ LET w == RunEnd(lowerQ, RunEnd(lowerQ, i, DigitSet), WhiteSet)
           IN /\ w > RunEnd(lowerQ, i, DigitSet)
              /\ (occursAt(lowerQ, w, "patient") \/ occursAt(lowerQ, w, "patnum"))
      hits == {i \in 1..Len(lowerQ) : matchAt(i)}
  IN IF hits = {} THEN DefaultPricingLimit
     ELSE LET i == SetMin(hits)
          IN parseInt(SubSeq(lowerQ, i, RunEnd(lowerQ, i, DigitSet) - 1))

buildMultiPatientPricingSearchSQL(question) ==
  LET limit == pricingSearchLimit(question)
  IN   "SELECT \n" \o
       "    c.PatNum,\n" \o
       "    CONCAT(p.LName, ', ', p.FName) AS PatientName,\n" \o
       "    COUNT(DISTINCT c.CommlogNum) AS NotesWithPricing,\n" \o
       "    MAX(c.CommDateTime) AS LatestPricingDiscussion,\n" \o
       "    LEFT(MAX(c.Note), 500) AS LatestNote\n" \o
       "FROM commlog c\n" \o
       "INNER JOIN patient p ON c.PatNum = p.PatNum\n" \o
       "WHERE c.Note IS NOT NULL\n" \o
       "AND (\n" \o
       "    c.Note LIKE '%$ % per month%'\n" \o
       "    OR c.Note LIKE '%$% for%'\n" \o
       "    OR c.Note LIKE '%pricing%'\n" \o
       "    OR c.Note LIKE '%PX Summary%pricing%'\n" \o
       "    OR c.Note LIKE '%fee%waived%'\n" \o
       "    OR c.Note LIKE '%monthly package%'\n" \o
       "    OR c.Note LIKE '%setup fee%'\n" \o
       "    OR c.Note LIKE '%subscription%'\n" \o
       "    OR c.Note LIKE '%cost%'\n" \o
       ")\n" \o
       "GROUP BY c.PatNum, p.LName, p.FName\n" \o
       "ORDER BY LatestPricingDiscussion DESC\n" \o
       "LIMIT " \o
       numToString(limit)

\* the search statement of lookupPatientNumber: a name of two or more words
\* is matched on its first and its last word
lookupPatientQuery(patientName) ==
  LET name == trim(patientName)
      firstEnd == SetMin({i \in 1..(Len(name) + 1) : i = Len(name) + 1 \/ CharAt(name, i) \in WhiteSet})
      lastStart == SetMax({i \in 1..Len(name) : i = 1 \/ CharAt(name, i - 1) \in WhiteSet})
      firstName == SubSeq(name, 1, firstEnd - 1)
      lastName == IF firstEnd <= Len(name) THEN SubSeq(name, lastStart, Len(name)) ELSE ""
  IN "SELECT PatNum, LName, FName FROM patient WHERE " \o
     (IF lastName # ""
        THEN "LName LIKE '%" \o lastName \o "%' AND FName LIKE '%" \o firstName \o "%'"
      ELSE "(LName LIKE '%" \o firstName \o "%' OR FName LIKE '%" \o firstName \o "%')") \o
     " AND PatStatus != 2 LIMIT 10"


\* ------------------------------------------------------------------------
\* Patient-number substitution (services.js)
\* ------------------------------------------------------------------------

QuoteSet == {"'", "\""}

\* ['"]name['"] at i, without regard to case
quotedNameEnd(s, i, name) ==
  LET n == Len(name)
  IN IF /\ i + n + 1 <= Len(s)
        /\ CharAt(s, i) \in QuoteSet
        /\ toLowerCase(SubSeq(s, i + 1, i + n)) = toLowerCase(name)
        /\ CharAt(s, i + n + 1) \in QuoteSet
       THEN i + n + 2
     ELSE 0

\* LIKE\s+['"]%?name%?['"] at i, without regard to case
likeNameEnd(s, i, name) ==
  LET n == Len(name)
      q == RunEnd(s, i + 4, WhiteSet)
      a == IF occursAt(s, q + 1, "%") THEN q + 2 ELSE q + 1
      b == IF occursAt(s, a + n, "%") THEN a + n + 1 ELSE a + n
  IN IF /\ i + 3 <= Len(s)
        /\ toUpperCase(SubSeq(s, i, i + 3)) = "LIKE"
        /\ q > i + 4
        /\ q <= Len(s) /\ CharAt(s, q) \in QuoteSet
        /\ a + n - 1 <= Len(s)
        /\ toLowerCase(SubSeq(s, a, a + n - 1)) = toLowerCase(name)
        /\ b <= Len(s) /\ CharAt(s, b) \in QuoteSet
       THEN b + 1
     ELSE 0

\* =\s+['"]name['"] at i
equalNameEnd(s, i, name) ==
  LET q == RunEnd(s, i + 1, WhiteSet)
  IN IF occursAt(s, i, "=") /\ q > i + 1 THEN quotedNameEnd(s, q, name) ELSE 0

\* (FName|LName|PatientName)\s*=\s*['"]name['"] at i
columnNameEnd(s, i, name) ==
  LET u == toUpperCase(s)
      cols == {c \in {"FNAME", "LNAME", "PATIENTNAME"} : occursAt(u, i, c)}
  IN IF cols = {} THEN 0
     ELSE LET c == CHOOSE x \in cols : TRUE
              e == RunEnd(s, i + Len(c), WhiteSet)
          IN IF occursAt(s, e, "=")
               THEN quotedNameEnd(s, RunEnd(s, e + 1, WhiteSet), name)
             ELSE 0

\* the end (exclusive) of the match at i of one of the four patterns that
\* substitutePatientNumber builds around the name, 0 when it does not match
namePatternEnd(pattern, s, i, name) ==
  CASE pattern = "like" -> likeNameEnd(s, i, name)
    [] pattern = "equal" -> equalNameEnd(s, i, name)
    [] pattern = "quoted" -> quotedNameEnd(s, i, name)
    [] pattern = "column" -> columnNameEnd(s, i, name)

\* s.replace(pattern, by) with the g flag: the matches are taken left to
\* right without overlap
RECURSIVE replaceAllFrom(_, _, _, _, _)
replaceAllFrom(s, from, by, pattern, name) ==
  LET hits == {i \in from..Len(s) : namePatternEnd(pattern, s, i, name) # 0}
  IN IF hits = {} THEN SubSeq(s, from, Len(s))
     ELSE LET i == SetMin(hits)
          IN SubSeq(s, from, i - 1) \o by \o
             replaceAllFrom(s, namePatternEnd(pattern, s, i, name), by, pattern, name)

substitutePatientNumber(sqlQuery, patientName, patNum) ==
  LET num == numToString(patNum)
      modified1 == replaceAllFrom(sqlQuery, 1, "= " \o num, "like", patientName)
      modified2 == replaceAllFrom(modified1, 1, "= " \o num, "equal", patientName)
      modified3 == replaceAllFrom(modified2, 1, num, "quoted", patientName)
  IN replaceAllFrom(modified3, 1, "PatNum = " \o num, "column", patientName)


\* ------------------------------------------------------------------------
\* License-key prefix, greeting and routing (services.js, config module)
\* ------------------------------------------------------------------------

MinKeyLength == 30

\* [A-Za-z0-9+/=]
KeySet == LowerSet \cup UpperSet \cup DigitSet \cup {"+", "/", "="}

\* /^In\s+([A-Za-z0-9+/=]{30,})\s+(.+)$/i . The key is the whole run of key
\* characters, as white space must follow it. The dot takes no line
\* terminator and $ is the end of the string, so what follows the white space
\* holds no line feed; when only white space follows the key, the last of it
\* is left to (.+). Gives <<key, rest>>, or <<>> when the pattern does not match.
keyPrefixMatch(question) ==
  LET n == Len(question)
      keyStart == RunEnd(question, 3, WhiteSet)
      keyEnd == RunEnd(question, keyStart, KeySet)
      restStart == RunEnd(question, keyEnd, WhiteSet)
      key == SubSeq(question, keyStart, keyEnd - 1)
  IN IF /\ n >= 2 /\ toLowerCase(SubSeq(question, 1, 2)) = "in"
        /\ keyStart > 3
        /\ keyEnd - keyStart >= MinKeyLength
        /\ restStart > keyEnd
       THEN IF restStart <= n
              THEN IF includes(SubSeq(question, restStart, n), "\n") THEN <<>>
                   ELSE <<key, SubSeq(question, restStart, n)>>
            ELSE IF restStart - keyEnd >= 2 /\ CharAt(question, n) # "\n"
                   THEN <<key, SubSeq(question, n, n)>>
                 ELSE <<>>
     ELSE <<>>

preprocessTXQLLicenseKey(question) ==
  LET match == keyPrefixMatch(question)
  IN IF match # <<>>
       THEN [hasTXQLKey |-> TRUE, txqlLicenseKey |-> trim(match[1]),
             actualQuery |-> trim(match[2])]
     ELSE [hasTXQLKey |-> FALSE, txqlLicenseKey |-> NullStr, actualQuery |-> question]

preprocessLicenseKeyFromQuestion(question) ==
  LET match == keyPrefixMatch(question)
  IN IF match # <<>>
       THEN [hasLicenseKey |-> TRUE, licenseKey |-> trim(match[1]),
             actualQuery |-> trim(match[2])]
     ELSE [hasLicenseKey |-> FALSE, licenseKey |-> NullStr, actualQuery |-> question]

ShortGreetingLength == 3

isGreeting(question) ==
  LET lowerQ == trim(toLowerCase(question))
  IN \/ lowerQ \in {"hi", "hello", "hey", "good morning", "good afternoon",
                    "good evening", "how are you", "what's up", "whats up",
                    "sup", "yo", "greetings", "hola", "howdy", "hi there",
                    "hello there"}
     \/ /\ Len(lowerQ) <= ShortGreetingLength
        /\ Len(lowerQ) >= 1
        /\ \A i \in 1..Len(lowerQ) : CharAt(lowerQ, i) \in LowerSet

aiVoiceKeywords ==
  {"call", "calls", "voice", "phone", "patient", "appointment",
   "booked", "cancelled", "rescheduled", "upsell", "sentiment",
   "transcript", "audio", "follow-up", "callback", "cost of calls",
   "call duration", "call summary", "call records", "inbound", "outbound",
   "thumbs up", "thumbs down", "voicemail", "license key", "license keys",
   "licensekey", "how many calls", "call count", "calls per license"}

txqlKeywords ==
  {"users", "customers", "orders", "products", "inventory",
   "california", "texas", "state", "city", "address",
   "age", "email", "show me", "count", "list", "find",
   "table", "tables", "database", "records", "rows",
   "filter", "sort", "group by", "join", "select", "transaction"}

\* keywords.filter(kw => lowerQ.includes(kw)).length
keywordScore(lowerQ, keywords) == Cardinality({kw \in keywords : includes(lowerQ, kw)})

\* determineSystem with a tie given to the AI-Voice backend
determineSystemTieToVoice(question) ==
  LET lowerQ == toLowerCase(question)
  IN IF keywordScore(lowerQ, aiVoiceKeywords) >= keywordScore(lowerQ, txqlKeywords)
       THEN "aivoice" ELSE "txql"

determineSystem(question) ==
  LET lowerQ == toLowerCase(question)
      aiVoiceScore == keywordScore(lowerQ, aiVoiceKeywords)
      txqlScore == keywordScore(lowerQ, txqlKeywords)
  IN IF aiVoiceScore = 0 /\ txqlScore = 0 THEN "txql"
     ELSE IF aiVoiceScore > txqlScore THEN "aivoice" ELSE "txql"

callDirectionPatterns ==
  {"inbound", "outbound", "incoming", "outgoing", "call direction",
   "direction of", "type of call", "call type"}

isCallDirectionQuery(question) ==
  includesAny(toLowerCase(question), callDirectionPatterns)

\* new RegExp("what.*" + word).test(lowerQ): the dot takes no line feed
whatThen(lowerQ, word) ==
  \E i \in 1..Len(lowerQ) : \E j \in (i + 4)..Len(lowerQ) :
    /\ occursAt(lowerQ, i, "what")
    /\ occursAt(lowerQ, j, word)
    /\ ~includes(SubSeq(lowerQ, i + 4, j - 1), "\n")

\* the intents in the order of the object's keys, with their priorities
intentNames == <<"count", "filter", "content", "analysis">>

\* the priorities in the opposite order
intentPriorityReversed(intent) ==
  CASE intent = "count" -> 1
    [] intent = "filter" -> 2
    [] intent = "content" -> 3
    [] intent = "analysis" -> 4

intentPriority(intent) ==
  CASE intent = "count" -> 4
    [] intent = "filter" -> 3
    [] intent = "content" -> 2
    [] intent = "analysis" -> 1

intentConfidence(intent, lowerQ) ==
  CASE intent = "count" ->
         keywordScore(lowerQ, {"how many", "count", "total", "number of", "how much"})
    [] intent = "filter" ->
         keywordScore(lowerQ, {"show", "which", "find", "list", "give me", "provide", "display", "where"})
    [] intent = "content" ->
         keywordScore(lowerQ, {"transcript", "transcripts", "summary", "summaries", "text", "details", "read"})
         + (IF whatThen(lowerQ, "say") THEN 1 ELSE 0)
         + (IF whatThen(lowerQ, "said") THEN 1 ELSE 0)
    [] intent = "analysis" ->
         keywordScore(lowerQ, {"analyze", "review", "feedback", "performance", "insights",
                               "what went well", "what went wrong", "improve"})

\* the first of the intents sorted by confidence and then by priority, NullStr
\* for null when no keyword occurs
classifyAIVoiceIntent(question) ==
  LET lowerQ == toLowerCase(question)
      names == {intentNames[k] : k \in 1..Len(intentNames)}
      primaryIntent ==
        CHOOSE a \in names : \A b \in names :
          \/ intentConfidence(a, lowerQ) > intentConfidence(b, lowerQ)
          \/ /\ intentConfidence(a, lowerQ) = intentConfidence(b, lowerQ)
             /\ intentPriority(a) >= intentPriority(b)
  IN IF intentConfidence(primaryIntent, lowerQ) > 0 THEN primaryIntent ELSE NullStr


\* ------------------------------------------------------------------------
\* State
\* ------------------------------------------------------------------------

VARIABLES
  \* SQL augmentation applied to one question and one statement
  augQuestion,      \* the question the entities are extracted from
  sqlQuery,         \* the statement handed to enhanceSQLQuery
  augEntities,      \* extractSQLEntities(augQuestion)
  enhanced,         \* enhanceSQLQuery(sqlQuery, augEntities)
  validation,       \* validateSQL(enhanced)
  enhancedAgain,    \* enhanceSQLQuery(enhanced, augEntities)
  limited,          \* ensureQueryHasLimit(sqlQuery)
  limitedAgain,     \* ensureQueryHasLimit(limited)
  augStep,          \* how far the augmentation has come
  \* one POST request to /api/chat or to /api/txql/chat
  endpoint,         \* the route the request is posted to
  question,         \* req.body.question
  maxRetries,       \* the maxRetries queryTXQL is called with
  lastError,        \* queryTXQL's lastError, by the kind of the failure
  waits,            \* the delays queryTXQL has waited between attempts, in ms
  body,             \* the error and friendlyError fields of the response
  pc,               \* where the handler stands
  targetSystem,     \* determineSystem's answer
  txqlKey,          \* the key taken from the question on the TXQL branch
  queryToProcess,   \* the question handed to queryTXQL
  entities,         \* queryTXQL's entities
  patientLookup,    \* how lookupPatientNumber ended
  attempt,          \* queryTXQL's loop counter
  executed,         \* the payloads executeSQL has posted, in order
  processQuery,     \* the question the AI-Voice branch works on
  extractedLicenseKey, \* the key taken from the question on that branch
  intent,           \* classifyAIVoiceIntent's answer
  contextDates,     \* the dates resolveFromContext finds
  fetches,          \* the license keys fetchCallDetails has posted, in order
  filterKey,        \* the key handed to getCallsForLicenseKey
  handler,          \* the part of the route that answered
  status,           \* the HTTP status of the response, 0 before it
  \* one call of fetchCallDetails
  fetchStart,       \* its startDate
  fetchEnd,         \* its endDate
  currentPage,      \* the page the loop is to request
  hasMoreData,      \* the condition of the loop
  allCallData,      \* the rows collected, page by page
  requested,        \* the page numbers requested, in order
  served,           \* the number of rows of each page the service returned
  callResult,       \* what the call returns
  fetchPc,          \* where the call stands
  \* the sessions and what the requests share
  activeSessions,   \* the session map: key -> the session object it holds
  sessionObjects,   \* the session objects ever created, by their sessionId
  nextId,           \* the next identifier generateSessionId gives out
  now,              \* the clock, in minutes
  inflight,         \* per user: the session a request under way holds, or 0
  callHistory,      \* the callHistory of server.js
  askResponse,      \* the last response of /api/ask
  \* the formatting of one result
  fmtStep,          \* which function is applied, "done" after it
  originalQuestion, \* the question formatSQLResults is given
  fmtQuery,         \* the SQL text it is given
  sqlResults,       \* the result of executeSQL it is given
  formatted,        \* what formatSQLResults returns
  queryResults,     \* the rows analyzePricingDetails is given
  analysis,         \* what analyzePricingDetails returns
  cellValue,        \* the value cleanValue is given
  cleaned           \* what cleanValue returns

augVars == <<augQuestion, sqlQuery, augEntities, enhanced, validation,
             enhancedAgain, limited, limitedAgain, augStep>>

reqVars == <<endpoint, maxRetries, lastError, waits, body, question, pc, targetSystem, txqlKey, queryToProcess, entities,
             patientLookup, attempt, executed, processQuery,
             extractedLicenseKey, intent, contextDates, fetches, filterKey,
             handler, status>>

fetchVars == <<fetchStart, fetchEnd, currentPage, hasMoreData, allCallData,
               requested, served, callResult, fetchPc>>

sessVars == <<activeSessions, sessionObjects, nextId, now, inflight,
              callHistory, askResponse>>

fmtVars == <<fmtStep, originalQuestion, fmtQuery, sqlResults, formatted, queryResults,
             analysis, cellValue, cleaned>>

auxVars == <<fetchVars, sessVars, fmtVars>>

vars == <<augVars, reqVars, auxVars>>

\* the entities object as extractSQLEntities first builds it
NoEntities ==
  [patientName |-> NullStr, patientNum |-> NullNum, dateRange |-> NoDates,
   isActive |-> FALSE, includeDeleted |-> FALSE, state |-> NullStr,
   limit |-> NullNum, needsLimit |-> TRUE]
NoValidation == [valid |-> FALSE, error |-> "not validated"]

\* a response body with neither an error nor a friendlyError field
NoBody == [error |-> NullStr, friendlyError |-> NullStr]

\* no augmentation under way
AugIdle ==
  /\ augQuestion = "" /\ sqlQuery = "" /\ augEntities = NoEntities
  /\ enhanced = "" /\ validation = NoValidation /\ enhancedAgain = ""
  /\ limited = "" /\ limitedAgain = "" /\ augStep = "idle"

\* no result of fetchCallDetails yet
NoResult == [success |-> FALSE, error |-> NullStr, data |-> <<>>, count |-> 0]

\* no call of fetchCallDetails under way
FetchIdle ==
  /\ fetchStart = "" /\ fetchEnd = "" /\ currentPage = 0
  /\ hasMoreData = FALSE /\ allCallData = <<>> /\ requested = <<>>
  /\ served = <<>> /\ callResult = NoResult /\ fetchPc = "idle"

Users == {"u1", "u2"}

NoAnswer == [caller |-> "", callHistory |-> <<>>]

\* no session, no request
SessIdle ==
  /\ activeSessions = [k \in {} |-> 0] /\ sessionObjects = [i \in {} |-> 0]
  /\ nextId = 1 /\ now = 0 /\ inflight = [u \in Users |-> 0]
  /\ callHistory = <<>> /\ askResponse = NoAnswer

\* the result of analyzePricingDetails for no rows
NoAnalysis == [success |-> FALSE]
NoResults == [success |-> FALSE, error |-> "", shape |-> "null", rows |-> <<>>]
NoOutput == [kind |-> "", text |-> "", summarizer |-> FALSE, analysis |-> NoAnalysis]
NoCell == [type |-> "null", value |-> "", number |-> 0]

\* nothing to format
FmtIdle ==
  /\ fmtStep = "idle" /\ originalQuestion = "" /\ fmtQuery = ""
  /\ sqlResults = NoResults
  /\ formatted = NoOutput /\ queryResults = <<>> /\ analysis = NoAnalysis
  /\ cellValue = NoCell /\ cleaned = ""

AuxIdle == FetchIdle /\ SessIdle /\ FmtIdle

\* no request under way
ReqIdle ==
  /\ question = "" /\ pc = "idle" /\ targetSystem = "" /\ txqlKey = NullStr
  /\ queryToProcess = "" /\ entities = NoEntities /\ patientLookup = "none"
  /\ attempt = 0 /\ executed = <<>> /\ processQuery = ""
  /\ extractedLicenseKey = NullStr /\ intent = NullStr /\ fetches = <<>>
  /\ filterKey = NullStr /\ handler = "" /\ status = 0
  /\ contextDates = NoDates
  /\ endpoint = "" /\ maxRetries = 0 /\ lastError = NullStr /\ waits = <<>>
  /\ body = NoBody

\* ------------------------------------------------------------------------
\* SQL augmentation, step by step
\* ------------------------------------------------------------------------

\* Questions that between them set every entity the augmentation reads.
AugQuestions ==
  {"show patients",
   "show active patients",
   "show top 5 patients",
   "show all patients",
   "show deleted patients today",
   "patients in Texas last week",
   "active patients in CA from 1/5/2024"}

\* Statements: plain ones, one ending in a semicolon, one with its own
\* LIMIT, ones with and without WHERE, with GROUP BY and ORDER BY, a
\* subquery, SELECTs with no FROM, an open comment, the note query, and the
\* empty statement.
Statements ==
  {"SELECT * FROM patient",
   "SELECT * FROM patientnote",
   "SELECT a, CommDateTime FROM t GROUP BY a",
   "SELECT * FROM users;",
   "SELECT * FROM users LIMIT 5",
   "SELECT a FROM t WHERE a IN (SELECT b WHERE c = 1)",
   "SELECT 1 WHERE 1 = 1",
   "SELECT * FROM patient WHERE PatStatus = 0 ORDER BY LName",
   "SELECT LName FROM patient WHERE Zip = 1 /* open",
   "SELECT NOW()",
   buildNoteQuerySQL("notes for patnum = 42"),
   ";"}

InitAugment ==
  /\ augQuestion \in AugQuestions
  /\ sqlQuery \in Statements
  /\ augEntities = NoEntities
  /\ enhanced = "" /\ validation = NoValidation /\ enhancedAgain = ""
  /\ limited = "" /\ limitedAgain = ""
  /\ augStep = "start"
  /\ ReqIdle
  /\ AuxIdle

ExtractEntities ==
  /\ augStep = "start"
  /\ augEntities' = extractSQLEntities(augQuestion)
  /\ augStep' = "extracted"
  /\ UNCHANGED <<augQuestion, sqlQuery, enhanced, validation, enhancedAgain,
                 limited, limitedAgain, reqVars, auxVars>>

Enhance ==
  /\ augStep = "extracted"
  /\ enhanced' = enhanceSQLQuery(sqlQuery, augEntities)
  /\ augStep' = "enhanced"
  /\ UNCHANGED <<augQuestion, sqlQuery, augEntities, validation, enhancedAgain,
                 limited, limitedAgain, reqVars, auxVars>>

Validate ==
  /\ augStep = "enhanced"
  /\ validation' = validateSQL(enhanced)
  /\ augStep' = "validated"
  /\ UNCHANGED <<augQuestion, sqlQuery, augEntities, enhanced, enhancedAgain,
                 limited, limitedAgain, reqVars, auxVars>>

EnhanceAgain ==
  /\ augStep = "validated"
  /\ enhancedAgain' = enhanceSQLQuery(enhanced, augEntities)
  /\ augStep' = "enhancedAgain"
  /\ UNCHANGED <<augQuestion, sqlQuery, augEntities, enhanced, validation,
                 limited, limitedAgain, reqVars, auxVars>>

EnsureLimit ==
  /\ augStep = "enhancedAgain"
  /\ limited' = ensureQueryHasLimit(sqlQuery, DefaultSafetyLimit)
  /\ augStep' = "limited"
  /\ UNCHANGED <<augQuestion, sqlQuery, augEntities, enhanced, validation,
                 enhancedAgain, limitedAgain, reqVars, auxVars>>

EnsureLimitAgain ==
  /\ augStep = "limited"
  /\ limitedAgain' = ensureQueryHasLimit(limited, DefaultSafetyLimit)
  /\ augStep' = "limitedAgain"
  /\ UNCHANGED <<augQuestion, sqlQuery, augEntities, enhanced, validation,
                 enhancedAgain, limited, reqVars, auxVars>>

NextAugment ==
  \/ ExtractEntities
  \/ Enhance
  \/ Validate
  \/ EnhanceAgain
  \/ EnsureLimit
  \/ EnsureLimitAgain

SpecAugment == InitAugment /\ [][NextAugment]_vars


\* ------------------------------------------------------------------------
\* POST /api/chat (server.js) with queryTXQL (services.js)
\* ------------------------------------------------------------------------

HARDCODED_LICENSE_KEY == "MzdkNzUzNjJkMGVhZDQ5YzYzNmNhZDdkYzY3YWZh"
QUERY_EXEC_KEY == "MzdkNzUzNjJkMGVhZDQ5YzYzNmNhZDdkYzY3YWZh"

\* the maxRetries that /api/chat hands to queryTXQL
MaxRetries == 3

\* A key of base64 characters that happens to spell AI-Voice keywords, and
\* one that spells no keyword of either backend.
KeywordKey == "VoiceCallsPhoneAudioTranscript0="
PlainKey == "QWJjZGVmZ2hpamtsbW5vcHFyc3R1dnd4eXo0NTY3"

\* The questions a client posts: none, a greeting, questions for either
\* backend with and without a key prefix, with and without a direction
\* keyword, naming a patient, a limit, all results, notes and pricing, and
\* with the keywords of one intent, of several intents in equal number, and
\* of none, with explicit dates alone, beside a keyword phrase and in
\* descending order.
Questions ==
  {"",
   "hello",
   "show me users",
   "show me all users",
   "show me top 5 users",
   "list records for John Smith",
   "summarize notes for patnum = 42",
   "find 10 patients with pricing",
   "list incoming records",
   "how many inbound calls",
   "how many calls today",
   "any voicemail",
   "how many calls did we find and list",
   "show total calls",
   "review call transcript",
   "analyze call performance",
   "show me users from 2024-01-05 today",
   "how many calls on 2024-01-05 today",
   "how many calls from 2024-03-05 to 2024-03-01",
   "how many calls last week",
   "In " \o PlainKey \o " show me users",
   "In " \o PlainKey \o " list records for John Smith",
   "In " \o PlainKey \o " how many calls today",
   "In " \o KeywordKey \o " show me users",
   "In " \o PlainKey \o "  "}

\* What extractSQLFromTXQL finds in the reply of the TXQL service.
TxqlStatements ==
  {"SELECT * FROM users",
   "SELECT * FROM appointment WHERE PatName LIKE '%John Smith%'",
   "SELECT Note FROM procnote WHERE ProcNum = 1",
   "SELECT b WHERE c = 1"}

\* the PatNum of the single row a patient lookup finds
FoundPatNum == 7

\* executeSQL: the payload that is posted; the key is the custom key when
\* one is given and the configured key otherwise
executeSQL(sql, customKey, path) ==
  [query |-> trim(sql),
   key |-> IF customKey # NullStr THEN customKey ELSE QUERY_EXEC_KEY,
   path |-> path]

\* what /api/txql/chat is asked in the model
LegacyQuestions == {"", "show me users", "summarize notes for patnum = 42"}

\* the largest maxRetries a body of /api/txql/chat carries in the model
MaxBodyRetries == 5

\* the errors an attempt of the retry loop ends with: the abort of the
\* timeout, a failed connection, and the throw on a response that is not OK
FailureErrors == {"AbortError", "fetch failed",
                  "Server responded with status 404: Not Found",
                  "Server responded with status 500: Internal Server Error"}

retryDelayUncapped(k) == 1000 * 2^(k - 1)

\* the wait after the failed attempt k
retryDelay(k) == IF 1000 * 2^(k - 1) < 5000 THEN 1000 * 2^(k - 1) ELSE 5000

\* the message of the failure after the retries
friendlyMessage(err) ==
  "Sorry, I couldn't connect to the database server. " \o
  (IF err = "AbortError" THEN "The request took too long"
   ELSE IF includes(err, "fetch failed") THEN "Cannot reach the TXQL service"
   ELSE "The TXQL service encountered an error. Error details: " \o err)

\* the error fields of the bodies the endpoints answer with
txqlFailed(friendlyError) == [error |-> friendlyError, friendlyError |-> NullStr]
CallFailed == [error |-> "Request timeout",
               friendlyError |-> "Request timed out after 30 seconds."]
Unexpected == [error |-> "An unexpected error occurred",
               friendlyError |-> "Something went wrong. Please try again."]

Init ==
  /\ \/ endpoint = "chat" /\ question \in Questions /\ maxRetries = MaxRetries
     \/ /\ endpoint = "txqlChat"
        /\ question \in LegacyQuestions
        /\ maxRetries \in 0..MaxBodyRetries
  /\ pc = "start"
  /\ targetSystem = "" /\ txqlKey = NullStr /\ queryToProcess = ""
  /\ entities = NoEntities /\ patientLookup = "none" /\ attempt = 0
  /\ executed = <<>> /\ processQuery = "" /\ extractedLicenseKey = NullStr
  /\ intent = NullStr /\ fetches = <<>> /\ filterKey = NullStr
  /\ handler = "" /\ status = 0
  /\ contextDates = NoDates
  /\ lastError = NullStr /\ waits = <<>> /\ body = NoBody
  /\ AugIdle
  /\ AuxIdle

\* the response is sent: the handler returns
Respond(by, code, errors) ==
  /\ handler' = by
  /\ status' = code
  /\ body' = errors
  /\ pc' = "done"

\* check point 1: no question
RejectEmpty ==
  /\ pc = "start"
  /\ question = ""
  /\ Respond("rejected", 400,
             [error |-> "Question is required", friendlyError |-> NullStr])
  /\ UNCHANGED <<question, targetSystem, txqlKey, queryToProcess, entities,
                 patientLookup, attempt, executed, processQuery,
                 extractedLicenseKey, intent, fetches, filterKey, contextDates, endpoint, maxRetries, lastError, waits, augVars, auxVars>>

\* check point 2: greetings
Greet ==
  /\ pc = "start"
  /\ endpoint = "chat"
  /\ question # ""
  /\ isGreeting(question)
  /\ Respond("greeting", 200, NoBody)
  /\ UNCHANGED <<question, targetSystem, txqlKey, queryToProcess, entities,
                 patientLookup, attempt, executed, processQuery,
                 extractedLicenseKey, intent, fetches, filterKey, contextDates, endpoint, maxRetries, lastError, waits, augVars, auxVars>>

\* check point 3: the backend is chosen from the question as posted
Route ==
  /\ pc = "start"
  /\ endpoint = "chat"
  /\ question # ""
  /\ ~isGreeting(question)
  /\ targetSystem' = determineSystem(question)
  /\ pc' = targetSystem'
  /\ UNCHANGED <<question, txqlKey, queryToProcess, entities, patientLookup,
                 attempt, executed, processQuery, extractedLicenseKey, intent,
                 fetches, filterKey, handler, status, contextDates, endpoint, maxRetries, lastError, waits, body, augVars, auxVars>>


\* TXQL branch: the key prefix is split off, queryTXQL checks the question
\* and extracts the entities
TxqlBegin ==
  /\ \/ /\ pc = "txql"
        /\ LET txqlPreprocessed == preprocessTXQLLicenseKey(question)
           IN /\ txqlKey' = txqlPreprocessed.txqlLicenseKey
              /\ queryToProcess' = txqlPreprocessed.actualQuery
     \/ /\ pc = "start"
        /\ endpoint = "txqlChat"
        /\ question # ""
        /\ txqlKey' = NullStr
        /\ queryToProcess' = question
  /\ IF trim(queryToProcess') = ""
       THEN /\ Respond("txql", 500, txqlFailed("Please provide a valid question."))
            /\ UNCHANGED entities
     ELSE /\ entities' = extractSQLEntities(queryToProcess')
          /\ pc' = IF entities'.patientName # NullStr /\ entities'.patientNum \in {NullNum, 0}
                     THEN "lookup" ELSE "afterLookup"
          /\ UNCHANGED <<handler, status, body>>
  /\ UNCHANGED <<question, targetSystem, patientLookup, attempt, executed,
                 processQuery, extractedLicenseKey, intent, fetches, filterKey, contextDates, endpoint, maxRetries, lastError, waits,
                 augVars, auxVars>>

\* lookupPatientNumber: its statement goes to executeSQL with no custom key.
\* One row resolves the name; several rows, none, or a failed call end the
\* request with an explanation.
LookupPatient ==
  /\ pc = "lookup"
  /\ executed' = Append(executed,
                        executeSQL(lookupPatientQuery(entities.patientName), NullStr, "lookup"))
  /\ \E outcome \in {"one", "multiple", "notFound", "failed"} :
       /\ patientLookup' = outcome
       /\ IF outcome = "one"
            THEN /\ entities' = [entities EXCEPT !.patientNum = FoundPatNum]
                 /\ pc' = "afterLookup"
                 /\ UNCHANGED <<handler, status, body>>
          ELSE /\ Respond("txql", 200, NoBody)
               /\ UNCHANGED entities
  /\ UNCHANGED <<question, targetSystem, txqlKey, queryToProcess, attempt,
                 processQuery, extractedLicenseKey, intent, fetches, filterKey, contextDates, endpoint, maxRetries, lastError, waits,
                 augVars, auxVars>>

\* the multi-patient pricing search bypasses the TXQL service
PricingSearch ==
  /\ pc = "afterLookup"
  /\ isMultiPatientPricingSearch(queryToProcess)
  /\ executed' = Append(executed,
       executeSQL(ensureQueryHasLimit(buildMultiPatientPricingSearchSQL(queryToProcess),
                                      DefaultSafetyLimit),
                  txqlKey, "pricing"))
  /\ Respond("txql", 200, NoBody)
  /\ UNCHANGED <<question, targetSystem, txqlKey, queryToProcess, entities,
                 patientLookup, attempt, processQuery, extractedLicenseKey,
                 intent, fetches, filterKey, contextDates, endpoint, maxRetries, lastError, waits, augVars, auxVars>>

\* the retry loop is entered
TxqlLoop ==
  /\ pc = "afterLookup"
  /\ ~isMultiPatientPricingSearch(queryToProcess)
  /\ attempt' = 1
  /\ pc' = IF attempt' <= maxRetries THEN "fetch" ELSE "exhausted"
  /\ UNCHANGED <<question, targetSystem, txqlKey, queryToProcess, entities,
                 patientLookup, executed, processQuery, extractedLicenseKey,
                 intent, fetches, filterKey, handler, status, contextDates, endpoint, maxRetries, lastError, waits, body, augVars, auxVars>>

\* an attempt fails (no connection, a timeout, a status that is not OK): the
\* error is kept, the loop waits unless the attempt was the last, and goes
\* on to the next attempt; past the last one it ends
TxqlThrows ==
  /\ pc = "fetch"
  /\ \E error \in FailureErrors : lastError' = error
  /\ waits' = IF attempt < maxRetries THEN Append(waits, retryDelay(attempt))
              ELSE waits
  /\ attempt' = attempt + 1
  /\ pc' = IF attempt' <= maxRetries THEN "fetch" ELSE "exhausted"
  /\ UNCHANGED <<question, targetSystem, txqlKey, queryToProcess, entities,
                 patientLookup, executed, processQuery, extractedLicenseKey,
                 intent, fetches, filterKey, handler, status, contextDates,
                 endpoint, maxRetries, body, augVars, auxVars>>

isNoteSummaryRequest(q) == isNoteSummaryQuery(q) \/ isPricingFromNotesQuery(q)

\* the statement the main path goes on with: the note query replaces a
\* statement of the wrong kind or an incomplete one
noteQuerySwap(q, sql) ==
  LET txqlGeneratedWrongQuery ==
        /\ isNoteSummaryRequest(q)
        /\ ~includes(toLowerCase(sql), "procnote")
        /\ ~includes(toLowerCase(sql), "patientnote")
      txqlQueryIncomplete ==
        /\ isNoteSummaryRequest(q)
        /\ includes(sql, "procnote")
        /\ ~includes(sql, "UNION")
  IN IF txqlGeneratedWrongQuery \/ txqlQueryIncomplete
       THEN CHOOSE finalSql \in {IF betterSQL # NullStr THEN betterSQL ELSE sql :
                                   betterSQL \in {buildNoteQuerySQL(q)}} : TRUE
     ELSE sql

\* steps 4 and 5 of the main path
finalSqlQuery(q, sql, ents, lookup) ==
  enhanceSQLQuery(
    IF ents.patientName # NullStr /\ ents.patientNum \notin {NullNum, 0} /\ lookup # "none"
      THEN substitutePatientNumber(noteQuerySwap(q, sql), ents.patientName, ents.patientNum)
    ELSE noteQuerySwap(q, sql),
    ents)

\* the service replies with a statement: it is swapped, substituted,
\* enhanced and validated, and executed when valid
TxqlSql ==
  /\ pc = "fetch"
  /\ \E sql \in TxqlStatements :
       \E final \in {finalSqlQuery(queryToProcess, sql, entities, patientLookup)} :
         IF validateSQL(final).valid
           THEN /\ executed' = Append(executed, executeSQL(final, txqlKey, "main"))
                /\ Respond("txql", 200, NoBody)
         ELSE /\ Respond("txql", 500,
                         txqlFailed("The generated SQL query has syntax errors."))
              /\ UNCHANGED executed
  /\ UNCHANGED <<question, targetSystem, txqlKey, queryToProcess, entities,
                 patientLookup, attempt, processQuery, extractedLicenseKey,
                 intent, fetches, filterKey, contextDates, endpoint, maxRetries, lastError, waits, augVars, auxVars>>

\* the note query, enhanced, that both fallbacks execute
enhancedFallbackSQL(fallbackSQL, ents) == enhanceSQLQuery(fallbackSQL, ents)

\* the service replies with no statement: the note query is executed when the
\* question names a PatNum, else the reply's text is the answer
TxqlNoSql ==
  /\ pc = "fetch"
  /\ \E fallbackSQL \in {buildNoteQuerySQL(queryToProcess)} :
       IF fallbackSQL # NullStr
         THEN executed' = Append(executed,
                executeSQL(enhancedFallbackSQL(fallbackSQL, entities), txqlKey, "noSqlFallback"))
       ELSE UNCHANGED executed
  /\ Respond("txql", 200, NoBody)
  /\ UNCHANGED <<question, targetSystem, txqlKey, queryToProcess, entities,
                 patientLookup, attempt, processQuery, extractedLicenseKey,
                 intent, fetches, filterKey, contextDates, endpoint, maxRetries, lastError, waits, augVars, auxVars>>

\* the loop made no attempt: the last error, still null, is read for the
\* log and queryTXQL throws. /api/chat catches it; /api/txql/chat has no
\* catch and sends no response.
LastErrorOfNull ==
  /\ pc = "exhausted"
  /\ lastError = NullStr
  /\ IF endpoint = "chat"
       THEN Respond("catch", 500, Unexpected)
     ELSE pc' = "threw" /\ UNCHANGED <<handler, status, body>>
  /\ UNCHANGED <<question, targetSystem, txqlKey, queryToProcess, entities,
                 patientLookup, attempt, executed, processQuery,
                 extractedLicenseKey, intent, fetches, filterKey, contextDates,
                 endpoint, maxRetries, lastError, waits, augVars, auxVars>>

\* every attempt failed: a note request falls back to the note query, any
\* other request fails
AfterRetries ==
  /\ pc = "exhausted"
  /\ lastError # NullStr
  /\ \E fallbackSQL \in {buildNoteQuerySQL(queryToProcess)} :
       IF isNoteSummaryRequest(queryToProcess) /\ fallbackSQL # NullStr
         THEN /\ executed' = Append(executed,
                   executeSQL(enhancedFallbackSQL(fallbackSQL, entities), txqlKey, "retryFallback"))
              /\ Respond("txql", 200, NoBody)
       ELSE /\ Respond("txql", 500, txqlFailed(friendlyMessage(lastError)))
            /\ UNCHANGED executed
  /\ UNCHANGED <<question, targetSystem, txqlKey, queryToProcess, entities,
                 patientLookup, attempt, processQuery, extractedLicenseKey,
                 intent, fetches, filterKey, contextDates, endpoint, maxRetries, lastError, waits, augVars, auxVars>>


\* AI-Voice branch: the key prefix is split off, the dates are resolved (the
\* session holds no earlier AI-Voice answer) and the handler is chosen from
\* what remains. A question with a key goes to the license-key handler,
\* else one about call direction to the direction handler, else one with an
\* intent to the entity handler; the code past these reads an identifier
\* that is not declared.
AiVoiceBegin ==
  /\ pc = "aivoice"
  /\ LET preprocessed == preprocessLicenseKeyFromQuestion(question)
     IN /\ processQuery' = preprocessed.actualQuery
        /\ extractedLicenseKey' = preprocessed.licenseKey
        /\ contextDates' = detectSingleDateFromQuestion(processQuery')
        /\ intent' = classifyAIVoiceIntent(processQuery')
        /\ pc' = IF preprocessed.hasLicenseKey THEN "licenseKey"
                 ELSE IF isCallDirectionQuery(processQuery') THEN "direction"
                 ELSE IF intent' # NullStr THEN "entity"
                 ELSE "later"
  /\ UNCHANGED <<question, targetSystem, txqlKey, queryToProcess, entities,
                 patientLookup, attempt, executed, fetches, filterKey, handler,
                 status, endpoint, maxRetries, lastError, waits, body, augVars, auxVars>>

\* fetchCallDetails posts the configured license key, whatever the question
\* held: the call fails, or finds no call, or finds calls
CallOutcomes == {"failed", "empty", "calls"}

\* the license-key handler: the calls fetched are filtered by the key of the
\* question
LicenseKeyHandler ==
  /\ pc = "licenseKey"
  /\ fetches' = Append(fetches, HARDCODED_LICENSE_KEY)
  /\ \E outcome \in CallOutcomes :
       /\ filterKey' = IF outcome = "calls" THEN extractedLicenseKey ELSE filterKey
       /\ Respond("licenseKey", IF outcome = "failed" THEN 500 ELSE 200,
               IF outcome = "failed" THEN CallFailed ELSE NoBody)
  /\ UNCHANGED <<question, targetSystem, txqlKey, queryToProcess, entities,
                 patientLookup, attempt, executed, processQuery,
                 extractedLicenseKey, intent, contextDates, endpoint, maxRetries, lastError, waits, augVars, auxVars>>

\* handler 1: call direction
DirectionHandler ==
  /\ pc = "direction"
  /\ fetches' = Append(fetches, HARDCODED_LICENSE_KEY)
  /\ \E outcome \in CallOutcomes :
       Respond("direction", IF outcome = "failed" THEN 500 ELSE 200,
               IF outcome = "failed" THEN CallFailed ELSE NoBody)
  /\ UNCHANGED <<question, targetSystem, txqlKey, queryToProcess, entities,
                 patientLookup, attempt, executed, processQuery,
                 extractedLicenseKey, intent, filterKey, contextDates, endpoint, maxRetries, lastError, waits, augVars, auxVars>>

\* handler 2: analysis by intent
EntityHandler ==
  /\ pc = "entity"
  /\ fetches' = Append(fetches, HARDCODED_LICENSE_KEY)
  /\ \E outcome \in CallOutcomes :
       Respond("entity", IF outcome = "failed" THEN 500 ELSE 200,
               IF outcome = "failed" THEN CallFailed ELSE NoBody)
  /\ UNCHANGED <<question, targetSystem, txqlKey, queryToProcess, entities,
                 patientLookup, attempt, executed, processQuery,
                 extractedLicenseKey, intent, filterKey, contextDates, endpoint, maxRetries, lastError, waits, augVars, auxVars>>

\* past handler 2 the test of isLicenseQuery throws a ReferenceError, which
\* the handler's catch answers
UndeclaredIdentifier ==
  /\ pc = "later"
  /\ Respond("catch", 500, Unexpected)
  /\ UNCHANGED <<question, targetSystem, txqlKey, queryToProcess, entities,
                 patientLookup, attempt, executed, processQuery,
                 extractedLicenseKey, intent, fetches, filterKey, contextDates, endpoint, maxRetries, lastError, waits, augVars, auxVars>>

Next ==
  \/ RejectEmpty
  \/ Greet
  \/ Route
  \/ TxqlBegin
  \/ LookupPatient
  \/ PricingSearch
  \/ TxqlLoop
  \/ TxqlThrows
  \/ TxqlSql
  \/ TxqlNoSql
  \/ LastErrorOfNull
  \/ AfterRetries
  \/ AiVoiceBegin
  \/ LicenseKeyHandler
  \/ DirectionHandler
  \/ EntityHandler
  \/ UndeclaredIdentifier

Spec == Init /\ [][Next]_vars


\* ------------------------------------------------------------------------
\* fetchCallDetails: the pages of the AI-Voice service (services.js)
\* ------------------------------------------------------------------------

pageSize == 1000
MaxPages == 50

\* the dates a call is made with
FetchDates == {"2024-03-01", "2024-02-30"}

\* the numbers of rows a page of the service may hold
PageLengths == {0, 1, pageSize - 1, pageSize, pageSize + 1}

\* how a request may fail: status 404, another 4xx status, or an error that
\* axios throws (a 5xx status, no connection, the timeout)
FetchFailures == {"API endpoint not found", "Invalid authentication credentials",
                  "Request timeout"}

pageLimitPassedLate(page) == page > MaxPages + 1

\* the safety limit of the loop
pageLimitPassed(page) == page > MaxPages

\* the rows of one page, kept together: page k holds n rows
pageRows(k, n) == [page |-> k, rows |-> n]

RECURSIVE rowCount(_)
rowCount(chunks) ==
  IF chunks = <<>> THEN 0 ELSE chunks[1].rows + rowCount(Tail(chunks))

failure(error) == [success |-> FALSE, error |-> error, data |-> <<>>, count |-> 0]

InitFetch ==
  /\ fetchStart \in FetchDates /\ fetchEnd \in FetchDates
  /\ currentPage = 0 /\ hasMoreData = FALSE /\ allCallData = <<>>
  /\ requested = <<>> /\ served = <<>> /\ callResult = NoResult
  /\ fetchPc = "start"
  /\ AugIdle /\ ReqIdle /\ SessIdle /\ FmtIdle

\* the dates are validated and the loop is set up
FetchBegin ==
  /\ fetchPc = "start"
  /\ IF ~validateDateFormat(fetchStart) \/ ~validateDateFormat(fetchEnd)
       THEN /\ callResult' = failure("Invalid date format")
            /\ fetchPc' = "returned"
            /\ UNCHANGED <<currentPage, hasMoreData>>
     ELSE /\ currentPage' = 1
          /\ hasMoreData' = TRUE
          /\ fetchPc' = "loop"
          /\ UNCHANGED callResult
  /\ UNCHANGED <<fetchStart, fetchEnd, allCallData, requested, served,
                 augVars, reqVars, sessVars, fmtVars>>

\* one turn of the loop: the page is requested; the request fails, or its
\* rows are collected and the loop goes on after a full page
FetchPage ==
  /\ fetchPc = "loop"
  /\ hasMoreData
  /\ requested' = Append(requested, currentPage)
  /\ \/ \E error \in FetchFailures :
          /\ callResult' = failure(error)
          /\ fetchPc' = "returned"
          /\ UNCHANGED <<currentPage, hasMoreData, allCallData, served>>
     \/ \E n \in PageLengths :
          /\ served' = Append(served, n)
          /\ allCallData' = IF n > 0 THEN Append(allCallData, pageRows(currentPage, n))
                            ELSE allCallData
          /\ currentPage' = IF n = pageSize THEN currentPage + 1 ELSE currentPage
          /\ hasMoreData' = (n = pageSize /\ ~pageLimitPassed(currentPage'))
          /\ UNCHANGED <<callResult, fetchPc>>
  /\ UNCHANGED <<fetchStart, fetchEnd, augVars, reqVars, sessVars, fmtVars>>

\* the loop has ended: the rows collected are the result
FetchReturn ==
  /\ fetchPc = "loop"
  /\ ~hasMoreData
  /\ callResult' = [success |-> TRUE, error |-> NullStr, data |-> allCallData,
                    count |-> rowCount(allCallData)]
  /\ fetchPc' = "returned"
  /\ UNCHANGED <<fetchStart, fetchEnd, currentPage, hasMoreData, allCallData,
                 requested, served, augVars, reqVars, sessVars, fmtVars>>

NextFetch ==
  \/ FetchBegin
  \/ FetchPage
  \/ FetchReturn

\* every request ends (its timeout is 30 seconds) and the code between the
\* requests runs
SpecFetch == InitFetch /\ [][NextFetch]_vars /\ WF_vars(NextFetch)


\* ------------------------------------------------------------------------
\* Sessions and the state the requests share (services.js, server.js)
\* ------------------------------------------------------------------------

maxAgeMinutes == 30
SweepMinutes == 10

\* how far the clock runs, in sweep intervals
MaxTicks == 4
\* how many sessions are created
MaxSessions == 2
\* how many turns a history holds
MaxTurns == 1

sessionKey(userId) == "user_" \o userId

expiredAtWindow(ageMinutes) == ageMinutes >= maxAgeMinutes

\* cleanupOldSessions: the test of one session
expired(ageMinutes) == ageMinutes > maxAgeMinutes

\* getOrCreateSession: a new session object under the key, or the
\* lastActive of the object the map holds refreshed
getOrCreateSession(userId) ==
  IF sessionKey(userId) \notin DOMAIN activeSessions
    THEN /\ activeSessions' = activeSessions @@ (sessionKey(userId) :> nextId)
         /\ sessionObjects' = sessionObjects @@
              (nextId :> [sessionId |-> nextId, txqlSessionId |-> nextId + 1,
                          lastActive |-> now,
                          conversationHistory |-> <<>>])
         /\ nextId' = nextId + 2
  ELSE /\ sessionObjects' =
            [sessionObjects EXCEPT ![activeSessions[sessionKey(userId)]].lastActive = now]
       /\ UNCHANGED <<activeSessions, nextId>>

InitSessions ==
  /\ SessIdle
  /\ AugIdle /\ ReqIdle /\ FetchIdle /\ FmtIdle

\* POST /api/chat: the session is taken at the start of the request and
\* held across the awaits of the request
BeginChatOf(u) ==
  /\ inflight[u] = 0
  /\ sessionKey(u) \in DOMAIN activeSessions \/ nextId < 2 * MaxSessions
  /\ getOrCreateSession(u)
  /\ inflight' = [inflight EXCEPT ![u] = activeSessions'[sessionKey(u)]]
  /\ UNCHANGED <<now, callHistory, askResponse, augVars, reqVars, fetchVars, fmtVars>>

BeginChat == \E u \in Users : BeginChatOf(u)

\* the request ends: after a success the turn is pushed onto the history of
\* the session object the request holds
CompleteChatOf(u, success) ==
  /\ inflight[u] # 0
  /\ IF success /\ Len(sessionObjects[inflight[u]].conversationHistory) < MaxTurns
       THEN sessionObjects' =
              [sessionObjects EXCEPT ![inflight[u]].conversationHistory =
                 Append(@, [question |-> u])]
     ELSE UNCHANGED sessionObjects
  /\ inflight' = [inflight EXCEPT ![u] = 0]
  /\ UNCHANGED <<activeSessions, nextId, now, callHistory, askResponse,
                 augVars, reqVars, fetchVars, fmtVars>>

CompleteChat == \E u \in Users : \E success \in BOOLEAN : CompleteChatOf(u, success)

\* the sweep of the timer
cleanupOldSessions ==
  /\ activeSessions' =
       [key \in {k \in DOMAIN activeSessions :
                   ~expired(now - sessionObjects[activeSessions[k]].lastActive)}
          |-> activeSessions[key]]
  /\ UNCHANGED <<sessionObjects, nextId, now, inflight, callHistory, askResponse,
                 augVars, reqVars, fetchVars, fmtVars>>

\* DELETE /api/txql/session
DeleteSession ==
  \E u \in Users :
    /\ activeSessions' =
         [key \in DOMAIN activeSessions \ {sessionKey(u)} |-> activeSessions[key]]
    /\ UNCHANGED <<sessionObjects, nextId, now, inflight, callHistory, askResponse,
                   augVars, reqVars, fetchVars, fmtVars>>

\* POST /api/ask: the rows of a successful fetch replace callHistory, and
\* the response carries callHistory
Ask ==
  \E u \in Users : \E fetched \in BOOLEAN :
    /\ callHistory' = IF fetched THEN <<u>> ELSE callHistory
    /\ askResponse' = [caller |-> u, callHistory |-> callHistory']
    /\ UNCHANGED <<activeSessions, sessionObjects, nextId, now, inflight,
                   augVars, reqVars, fetchVars, fmtVars>>

\* time passes
Tick ==
  /\ now < MaxTicks * SweepMinutes
  /\ now' = now + SweepMinutes
  /\ UNCHANGED <<activeSessions, sessionObjects, nextId, inflight, callHistory,
                 askResponse, augVars, reqVars, fetchVars, fmtVars>>

NextSessions ==
  \/ BeginChat
  \/ CompleteChat
  \/ cleanupOldSessions
  \/ DeleteSession
  \/ Ask
  \/ Tick

SpecSessions == InitSessions /\ [][NextSessions]_vars

\* ------------------------------------------------------------------------
\* The formatting of a result (services.js)
\* ------------------------------------------------------------------------

\* parseFloat(record[field]) || 0, in whole dollars
amount(record, field) == IF field \in DOMAIN record THEN record[field] ELSE 0

paymentBucketBalanceFirst(procFee, remainingBalance, insPayment, patPayment, writeOff) ==
  IF remainingBalance <= 0 THEN "fullyPaid"
  ELSE IF procFee = 0 THEN "zeroCharge"
  ELSE IF insPayment > 0 \/ patPayment > 0 \/ writeOff > 0 THEN "partiallyPaid"
  ELSE "unpaid"

\* analyzePricingDetails: the payment status counted for one record
paymentBucket(procFee, remainingBalance, insPayment, patPayment, writeOff) ==
  IF procFee = 0 THEN "zeroCharge"
  ELSE IF remainingBalance <= 0 THEN "fullyPaid"
  ELSE IF insPayment > 0 \/ patPayment > 0 \/ writeOff > 0 THEN "partiallyPaid"
  ELSE "unpaid"

\* (num / den * 100).toFixed(2), in hundredths of a percent
toFixed2(num, den) ==
  IF num >= 0 THEN (2 * num * 10000 + den) \div (2 * den)
  ELSE 0 - ((2 * (0 - num) * 10000 + den) \div (2 * den))

\* the analysis before the first record
EmptyAnalysis ==
  [totalBilled |-> 0, totalInsurancePaid |-> 0, totalWriteOffs |-> 0,
   totalAdjustments |-> 0, totalPatientPayments |-> 0,
   paymentStatus |-> [fullyPaid |-> 0, partiallyPaid |-> 0, unpaid |-> 0,
                      zeroCharge |-> 0]]

\* analyzePricingDetails: the forEach over the records
RECURSIVE analyzeRecords(_)
analyzeRecords(records) ==
  IF records = <<>> THEN EmptyAnalysis
  ELSE LET acc == analyzeRecords(SubSeq(records, 1, Len(records) - 1))
           record == records[Len(records)]
           procFee == amount(record, "ProcFee")
           insPayment == amount(record, "InsPayAmt")
           writeOff == amount(record, "WriteOff")
           adjustment == amount(record, "Adjustments")
           patPayment == amount(record, "Payments")
           remainingBalance ==
             procFee - insPayment - writeOff - adjustment - patPayment
           bucket == paymentBucket(procFee, remainingBalance, insPayment,
                                   patPayment, writeOff)
       IN [totalBilled |-> acc.totalBilled + procFee,
           totalInsurancePaid |-> acc.totalInsurancePaid + insPayment,
           totalWriteOffs |-> acc.totalWriteOffs + writeOff,
           totalAdjustments |-> acc.totalAdjustments +
             (IF adjustment < 0 THEN 0 - adjustment ELSE adjustment),
           totalPatientPayments |-> acc.totalPatientPayments + patPayment,
           paymentStatus |->
             [acc.paymentStatus EXCEPT ![bucket] = acc.paymentStatus[bucket] + 1]]

\* analyzePricingDetails(queryResults, patNum)
analyzePricingDetails(records, patNum) ==
  IF records = <<>> THEN NoAnalysis
  ELSE LET acc == analyzeRecords(records)
       IN [success |-> TRUE,
           patientNumber |-> patNum,
           totalRecords |-> Len(records),
           financial |->
             [totalBilled |-> acc.totalBilled,
              totalInsurancePaid |-> acc.totalInsurancePaid,
              totalWriteOffs |-> acc.totalWriteOffs,
              totalAdjustments |-> acc.totalAdjustments,
              totalPatientPayments |-> acc.totalPatientPayments,
              netPatientBalance |->
                acc.totalBilled - acc.totalInsurancePaid -
                acc.totalWriteOffs - acc.totalPatientPayments,
              insuranceCoverage |->
                IF acc.totalBilled > 0
                  THEN toFixed2(acc.totalInsurancePaid, acc.totalBilled)
                ELSE 0],
           paymentStatus |-> acc.paymentStatus]

\* the records of the payment analysis: a fee, what insurance paid (a
\* reversal is a negative payment), a write-off, an adjustment, a payment
PaymentRecords ==
  [ProcFee : {0, 100}, InsPayAmt : {0 - 50, 0, 100}, WriteOff : {0, 50},
   Adjustments : {0, 100}, Payments : {0, 50}]

\* how many records one analysis is given
MaxRecords == 2

RecordLists ==
  UNION {[1..n -> PaymentRecords] : n \in 0..MaxRecords}

isPricingAnalysisQuery(q) ==
  includesAny(toLowerCase(q),
    {"pricing details", "analyze pricing", "payment details",
     "analyze payment", "financial analysis", "billing analysis",
     "payment analysis", "cost analysis", "analyze costs", "analyze charges"})

\* extractPatientNumber: the first truthy of PatNum, patNum and
\* PatientNumber of the first record, or null
extractPatientNumber(records) ==
  IF records = <<>> THEN NullNum
  ELSE LET truthy == <<"PatNum", "patNum", "PatientNumber">>
           found == {i \in 1..3 : amount(records[1], truthy[i]) # 0}
       IN IF found = {} THEN NullNum
          ELSE records[1][truthy[SetMin(found)]]

\* the test of the note columns and of the payment columns
hasNoteColumns(columns) ==
  \E col \in columns :
    col = "Note" \/ col = "NoteType" \/ includes(toLowerCase(col), "note")

hasPaymentColumns(columns) ==
  \E col \in columns :
    col \in {"ProcFee", "InsPayAmt", "WriteOff", "Adjustments", "Payments"}

\* the end of the texts that show the SQL
sqlBlock(title, query) ==
  LET fence == BackTick \o BackTick \o BackTick
  IN title \o "\n" \o fence \o "sql\n" \o query \o "\n" \o fence

formatSQLResultsSummaryFirst(results, query, q, summaryOk) ==
  IF isNoteSummaryQuery(q) \/ isPricingFromNotesQuery(q)
    THEN [kind |-> "summary", text |-> "## AI-Powered Note Summary",
          summarizer |-> TRUE, analysis |-> NoAnalysis]
  ELSE [kind |-> "failed",
        text |-> "## Query Execution Failed\n\n" \o
                 sqlBlock("### SQL Query That Failed:", query),
        summarizer |-> FALSE, analysis |-> NoAnalysis]

\* formatSQLResults(sqlResults, sqlQuery, originalQuestion); summaryOk is
\* whether generateNoteSummary succeeds when it is called.  The shape of
\* sqlResults.data is "null", "array" (the rows), "wrapped" ({data: rows}),
\* "object" (an object that holds no rows) or "scalars" (an array whose
\* elements are not objects); the chart, the cards and the table are one
\* kind, "results".
formatSQLResults(results, query, q, summaryOk) ==
  IF ~results.success \/ results.shape = "null"
    THEN [kind |-> "failed",
          text |-> "## Query Execution Failed\n\n**Error:** " \o
                   (IF results.error = "" THEN "Unknown error" ELSE results.error) \o
                   "\n\n" \o sqlBlock("### SQL Query That Failed:", query),
          summarizer |-> FALSE, analysis |-> NoAnalysis]
  ELSE IF results.shape = "object" \/ results.rows = <<>>
    THEN [kind |-> "empty",
          text |-> "## Query Results\n\n**Records Found:** 0\n\n" \o
                   sqlBlock("### SQL Query:", query),
          summarizer |-> FALSE, analysis |-> NoAnalysis]
  ELSE IF results.shape = "scalars"
    THEN [kind |-> "malformed",
          text |-> "## Query Results\n\n**Records:** " \o
                   numToString(Len(results.rows)) \o "\n\n" \o
                   sqlBlock("### SQL Query:", query),
          summarizer |-> FALSE, analysis |-> NoAnalysis]
  ELSE
    LET rows == results.rows
        columns == DOMAIN rows[1]
        isPricingFromNotes == isPricingFromNotesQuery(q)
        isPricingQuery == isPricingAnalysisQuery(q)
        patNum == extractPatientNumber(rows)
        clean == [kind |-> "results",
                  text |-> "## Query Results\n\nFound **" \o
                           numToString(Len(rows)) \o "** records\n\n" \o
                           sqlBlock("View SQL Query", query),
                  summarizer |-> FALSE, analysis |-> NoAnalysis]
    IN IF (isNoteSummaryQuery(q) \/ isPricingFromNotes) /\ hasNoteColumns(columns)
         THEN IF summaryOk
                THEN [kind |-> "summary",
                      text |-> (IF isPricingFromNotes
                                  THEN "## AI-Powered Pricing Information from Notes"
                                ELSE "## AI-Powered Note Summary") \o "\n\n" \o
                               sqlBlock("View SQL Query Used", query),
                      summarizer |-> TRUE, analysis |-> NoAnalysis]
              ELSE [clean EXCEPT !.summarizer = TRUE]
       ELSE IF (isPricingQuery \/ hasPaymentColumns(columns))
                 /\ hasPaymentColumns(columns) /\ patNum # NullNum
         THEN [kind |-> "analysis",
               text |-> "## Payment Analysis for Patient " \o
                        numToString(patNum) \o "\n\n" \o
                        sqlBlock("View SQL Query Used", query),
               summarizer |-> FALSE,
               analysis |-> analyzePricingDetails(rows, patNum)]
       ELSE clean


\* DISPLAY_CONFIG.MAX_CHAR_LENGTH, when DISPLAY_MAX_CHARS is not set
MAX_CHAR_LENGTH == 500

\* what cleanValue returns for no value, and what it writes for a pipe: the
\* source's characters are not ASCII, the model writes them as these
Dash == "-"
Box == "#"

\* str.replace(/[cs]+/g, ' '): every run of characters of cs becomes a space
RECURSIVE replaceRuns(_, _)
replaceRuns(str, cs) ==
  LET hits == {i \in 1..Len(str) : CharAt(str, i) \in cs}
  IN IF hits = {} THEN str
     ELSE LET i == SetMin(hits)
              j == RunEnd(str, i, cs)
          IN SubSeq(str, 1, i - 1) \o " " \o
             replaceRuns(SubSeq(str, j, Len(str)), cs)

\* str.replace(/\|/g, by)
RECURSIVE replacePipes(_, _)
replacePipes(str, by) ==
  LET i == indexOf(str, "|")
  IN IF i = 0 THEN str
     ELSE SubSeq(str, 1, i - 1) \o by \o
          replacePipes(SubSeq(str, i + 1, Len(str)), by)

\* Number.prototype.toLocaleString of a natural number, in en-US
RECURSIVE toLocaleString(_)
toLocaleString(n) ==
  IF n < 1000 THEN numToString(n)
  ELSE LET low == n % 1000
       IN toLocaleString(n \div 1000) \o "," \o
          (IF low < 10 THEN "00" ELSE IF low < 100 THEN "0" ELSE "") \o
          numToString(low)

\* cleanValue(val): val is null, a string (its value) or a number
cleanValue(val) ==
  IF val.type = "null" \/ (val.type = "string" /\ val.value = "") THEN Dash
  ELSE IF val.type = "string" /\ includes(val.value, "T")
    THEN IF startsWith(val.value, "0001-01-01") THEN Dash
         ELSE LET t == indexOf(val.value, "T")
                  rest == SubSeq(val.value, t + 1, Len(val.value))
                  u == indexOf(rest, "T")
                  date == SubSeq(val.value, 1, t - 1)
                  time == IF u = 0 THEN rest ELSE SubSeq(rest, 1, u - 1)
              IN IF time # "" /\ ~startsWith(time, "00:00:00")
                   THEN date \o " " \o
                        SubSeq(time, 1, IF Len(time) < 8 THEN Len(time) ELSE 8)
                 ELSE date
  ELSE IF val.type = "number" THEN toLocaleString(val.number)
  ELSE LET str == trim(replacePipes(
                    replaceRuns(replaceRuns(val.value, {"\r", "\n", "\t"}),
                                {" ", "\r", "\n", "\t"}), Box))
       IN IF MAX_CHAR_LENGTH > 0 /\ Len(str) > MAX_CHAR_LENGTH
            THEN SubSeq(str, 1, MAX_CHAR_LENGTH - 3) \o "..."
          ELSE str

\* s, n times
RECURSIVE repeat(_, _)
repeat(str, n) ==
  IF n = 0 THEN ""
  ELSE IF n % 2 = 0 THEN LET h == repeat(str, n \div 2) IN h \o h
  ELSE str \o repeat(str, n - 1)

FormatQuestions ==
  {"show procedures for patnum = 42",
   "Analyze payment details for patnum = 42",
   "summarize notes for patnum = 42",
   "pricing from notes for patnum = 42"}

FormatQueries ==
  {"SELECT * FROM procedurelog WHERE PatNum = 42",
   "SELECT * FROM commlog WHERE PatNum = 42"}

\* the rows a query returns
RowLists ==
  {<<>>,
   <<[PatNum |-> 42, ProcFee |-> 100, InsPayAmt |-> 50]>>,
   <<[PatNum |-> 42, ProcFee |-> 100, InsPayAmt |-> 0 - 50],
     [PatNum |-> 42, ProcFee |-> 0]>>,
   <<[PatNum |-> 0, ProcFee |-> 100]>>,
   <<[PatNum |-> 42, NoteType |-> "Treatment", Note |-> "crown $500"]>>,
   <<[PatNum |-> 42, LName |-> "Doe"]>>}

\* what executeSQL returns: a failure (data: null), or the body of the
\* response in one of its shapes; an element that is not an object is
\* written as a record of the model
ExecuteResults ==
  {[success |-> FALSE, error |-> "Request failed with status code 400",
    shape |-> "null", rows |-> <<>>],
   [success |-> TRUE, error |-> "", shape |-> "null", rows |-> <<>>],
   [success |-> TRUE, error |-> "", shape |-> "object", rows |-> <<>>],
   [success |-> TRUE, error |-> "", shape |-> "scalars",
    rows |-> <<[scalar |-> 1]>>]}
  \cup [success : {TRUE}, error : {""}, shape : {"array", "wrapped"},
        rows : RowLists]

\* the values of a cell
CellValues ==
  {NoCell, [NoCell EXCEPT !.type = "string"]}
  \cup [type : {"number"}, value : {""}, number : {0, 42, 1500, 1234005}]
  \cup [type : {"string"}, number : {0},
        value : {"2024-03-01T10:30:00.000Z", "2024-03-01T00:00:00",
                 "0001-01-01T00:00:00", "Doe", "  a|b \r\n\t c  ",
                 "Crown | Tx plan", "left\nrighT",
                 repeat("x", MAX_CHAR_LENGTH), repeat("x", MAX_CHAR_LENGTH + 1),
                 repeat("x", MAX_CHAR_LENGTH + 1) \o "T"}]

InitFormat ==
  /\ AugIdle /\ ReqIdle /\ FetchIdle /\ SessIdle
  /\ formatted = NoOutput /\ analysis = NoAnalysis /\ cleaned = ""
  /\ \/ /\ fmtStep = "format"
        /\ originalQuestion \in FormatQuestions
        /\ fmtQuery \in FormatQueries
        /\ sqlResults \in ExecuteResults
        /\ queryResults = <<>> /\ cellValue = NoCell
     \/ /\ fmtStep = "analyze"
        /\ queryResults \in RecordLists
        /\ originalQuestion = "" /\ fmtQuery = "" /\ sqlResults = NoResults
        /\ cellValue = NoCell
     \/ /\ fmtStep = "clean"
        /\ cellValue \in CellValues
        /\ originalQuestion = "" /\ fmtQuery = "" /\ sqlResults = NoResults
        /\ queryResults = <<>>

\* one call of formatSQLResults
FormatResults ==
  /\ fmtStep = "format"
  /\ \E summaryOk \in BOOLEAN :
       formatted' = formatSQLResults(sqlResults, fmtQuery, originalQuestion,
                                     summaryOk)
  /\ fmtStep' = "formatted"
  /\ UNCHANGED <<originalQuestion, fmtQuery, sqlResults, queryResults,
                 analysis, cellValue, cleaned, augVars, reqVars, fetchVars,
                 sessVars>>

\* one call of analyzePricingDetails
AnalyzePricing ==
  /\ fmtStep = "analyze"
  /\ analysis' = analyzePricingDetails(queryResults, 42)
  /\ fmtStep' = "analyzed"
  /\ UNCHANGED <<originalQuestion, fmtQuery, sqlResults, formatted,
                 queryResults, cellValue, cleaned, augVars, reqVars,
                 fetchVars, sessVars>>

\* one call of cleanValue
CleanCell ==
  /\ fmtStep = "clean"
  /\ cleaned' = cleanValue(cellValue)
  /\ fmtStep' = "cleaned"
  /\ UNCHANGED <<originalQuestion, fmtQuery, sqlResults, formatted,
                 queryResults, analysis, cellValue, augVars, reqVars,
                 fetchVars, sessVars>>

NextFormat ==
  \/ FormatResults
  \/ AnalyzePricing
  \/ CleanCell

SpecFormat == InitFormat /\ [][NextFormat]_vars

\* ------------------------------------------------------------------------
\* Properties of the SQL augmentation (under SpecAugment)
\* ------------------------------------------------------------------------

\* the positions of a keyword of SQL, as a whole word and in any case
keywordAt(sql, word) ==
  {i \in 1..Len(sql) : wholeWordAt(toUpperCase(sql), i, word)}

hasLimitClause(sql) == keywordAt(sql, "LIMIT") # {}

\* /\ball\b/ of the lower-cased question: the user asked for all results
askedForAll(q) == hasWholeWord(toLowerCase(q), "all")

Enhanced == augStep \in {"enhanced", "validated", "enhancedAgain", "limited", "limitedAgain"}
Validated == augStep \in {"validated", "enhancedAgain", "limited", "limitedAgain"}
EnhancedTwice == augStep \in {"enhancedAgain", "limited", "limitedAgain"}

\* the entities of scenario D: active only, deleted excluded, no limit named
ScenarioD ==
  /\ sqlQuery = "SELECT * FROM patient"
  /\ augEntities = [NoEntities EXCEPT !.isActive = TRUE]

\* C2: enhanceSQLQuery of `SELECT * FROM patient` with entities {isActive:
\* true, includeDeleted: false, needsLimit: true, limit: null} holds both
\* IsActive = 1 and (PatStatus != 2) in one WHERE clause, with exactly one
\* WHERE keyword, and ends in LIMIT 100.
C2_OneWhereBothConditions ==
  (Enhanced /\ ScenarioD) =>
    /\ includes(enhanced, "IsActive = 1")
    /\ includes(enhanced, "(PatStatus != 2)")
    /\ Cardinality(keywordAt(enhanced, "WHERE")) = 1
    /\ endsWith(enhanced, " LIMIT 100")

\* one SELECT and no UNION
singleLevelSelect(sql) ==
  /\ Cardinality(keywordAt(sql, "SELECT")) = 1
  /\ keywordAt(sql, "UNION") = {}

\* at most one WHERE, WHERE before any GROUP BY, ORDER BY or LIMIT, and
\* nothing but white space after a semicolon
wellFormed(sql) ==
  /\ Cardinality(keywordAt(sql, "WHERE")) <= 1
  /\ \A w \in keywordAt(sql, "WHERE") :
       \A c \in keywordAt(sql, "GROUP") \cup keywordAt(sql, "ORDER") \cup keywordAt(sql, "LIMIT") :
         w < c
  /\ \A i \in Occurrences(sql, ";") : trim(SubSeq(sql, i + 1, Len(sql))) = ""

\* C3: for every single-level SELECT statement and every combination of
\* extracted entities, the output of enhanceSQLQuery is well formed (at most
\* one WHERE, WHERE before GROUP BY / ORDER BY / LIMIT, nothing after a
\* terminating semicolon) or validateSQL rejects it.
C3_WellFormedOrRejected ==
  (Validated /\ singleLevelSelect(sqlQuery)) =>
    (wellFormed(enhanced) \/ ~validation.valid)

\* C4: when the statement lacks LIMIT, a question that names a limit (top N,
\* first N, limit N) gets LIMIT N appended, and a question that names none
\* and does not ask for all results gets LIMIT 100 appended.
C4_NamedLimitAppended ==
  (Enhanced /\ ~hasLimitClause(sqlQuery)) =>
    /\ augEntities.limit # NullNum =>
         includes(enhanced, " LIMIT " \o numToString(augEntities.limit))
    /\ (augEntities.limit = NullNum /\ ~askedForAll(augQuestion)) =>
         includes(enhanced, " LIMIT 100")

\* the larger of two numbers
Max(a, b) == IF a >= b THEN a ELSE b

\* a statement that holds more than white space and a closing semicolon
nonEmptyStatement(sql) == trim(sql) \notin {"", ";"}

selectsFromPatient(sql) ==
  \E i \in keywordAt(sql, "FROM") :
    LET t == RunEnd(sql, i + 4, WhiteSet)
    IN \/ t > i + 4 /\ wholeWordAt(toUpperCase(sql), t, "PATIENT")
       \/ occursAt(toUpperCase(sql), t, BackTick \o "PATIENT" \o BackTick)

\* C6: enhanceSQLQuery splices (PatStatus != 2) only when includeDeleted is
\* false, the statement selects from the patient table itself and does not
\* mention PatStatus already; statements that read only other tables
\* (patientnote, procnote, commlog, the note query of buildNoteQuerySQL)
\* never receive the condition.
C6_PatStatusOnlyForPatientTable ==
  (Enhanced /\ Cardinality(Occurrences(enhanced, "(PatStatus != 2)"))
                 > Cardinality(Occurrences(sqlQuery, "(PatStatus != 2)"))) =>
    /\ ~augEntities.includeDeleted
    /\ selectsFromPatient(sqlQuery)
    /\ ~includes(toUpperCase(sqlQuery), "PATSTATUS")

\* some SELECT is followed by a WHERE with neither a FROM nor another SELECT
\* in between
selectReachesWhereWithoutFrom(sql) ==
  \E s \in keywordAt(sql, "SELECT") : \E w \in keywordAt(sql, "WHERE") :
    /\ s < w
    /\ \A k \in keywordAt(sql, "FROM") \cup keywordAt(sql, "SELECT") : ~(s < k /\ k < w)

\* SELECT ... FROM ... WHERE ..., each keyword once and in this order, with
\* as many comment openers as closers
wellFormedSelectFromWhere(sql) ==
  /\ Cardinality(keywordAt(sql, "SELECT")) = 1
  /\ Cardinality(keywordAt(sql, "FROM")) = 1
  /\ Cardinality(keywordAt(sql, "WHERE")) = 1
  /\ \A s \in keywordAt(sql, "SELECT") : \A f \in keywordAt(sql, "FROM") :
       \A w \in keywordAt(sql, "WHERE") : s < f /\ f < w
  /\ Cardinality(Occurrences(sql, "/*")) = Cardinality(Occurrences(sql, "*/"))

\* C7: validateSQL returns valid:false for every string that contains SELECT
\* and WHERE but no FROM, and for every statement in which some SELECT
\* reaches a WHERE with no FROM in between; it returns valid:true for every
\* well-formed SELECT ... FROM ... WHERE ... with balanced comment delimiters.
C7_ValidateFromBeforeWhere ==
  Validated =>
    /\ (/\ keywordAt(enhanced, "SELECT") # {}
        /\ keywordAt(enhanced, "WHERE") # {}
        /\ keywordAt(enhanced, "FROM") = {}) => ~validation.valid
    /\ selectReachesWhereWithoutFrom(enhanced) => ~validation.valid
    /\ wellFormedSelectFromWhere(enhanced) => validation.valid


\* ------------------------------------------------------------------------
\* Properties of the request handling (under Spec)
\* ------------------------------------------------------------------------

\* the question begins with a license key: "In <key> <remainder>"
keyPrefixed(q) == keyPrefixMatch(q) # <<>>

\* what remains of a key-prefixed question once the prefix is split off
remainder(q) == preprocessTXQLLicenseKey(q).actualQuery

\* C1: every statement that reaches executeSQL on behalf of a question (main
\* path, note fallbacks, pricing search, patient lookup) holds a LIMIT clause
\* unless the user asked for all results, and has passed validateSQL.
C1_ExecutedLimitedAndValidated ==
  \A k \in 1..Len(executed) :
    /\ hasLimitClause(executed[k].query) \/ askedForAll(queryToProcess)
    /\ validateSQL(executed[k].query).valid

\* C8: for a key-prefixed question the backend (determineSystem) and the
\* AI-Voice intent are computed from the remainder alone, never from the
\* characters of the key.
C8_RoutedByRemainder ==
  (keyPrefixed(question) /\ targetSystem # "") =>
    /\ targetSystem = determineSystem(remainder(question))
    /\ pc \in {"licenseKey", "direction", "entity", "later"} =>
         intent = classifyAIVoiceIntent(remainder(question))

\* C9: the call-direction check precedes the keyword scoring: every question
\* that is not a greeting, has no key prefix and holds a direction keyword is
\* answered by the direction handler.
C9_DirectionFastPath ==
  (/\ pc = "done"
   /\ question # ""
   /\ ~isGreeting(question)
   /\ ~keyPrefixed(question)
   /\ isCallDirectionQuery(question)) => handler = "direction"

\* C10: for a key-prefixed question routed to TXQL every statement executed,
\* the patient lookup included, is executed with the key of the question;
\* routed to AI-Voice, the calls are fetched with the configured key and the
\* key of the question only filters what was fetched.
C10_KeyOfTheQuestion ==
  keyPrefixed(question) =>
    /\ targetSystem = "txql" =>
         \A k \in 1..Len(executed) : executed[k].key = keyPrefixMatch(question)[1]
    /\ targetSystem = "aivoice" =>
         /\ \A k \in 1..Len(fetches) : fetches[k] = HARDCODED_LICENSE_KEY
         /\ filterKey \in {NullStr, keyPrefixMatch(question)[1]}


\* ------------------------------------------------------------------------
\* Properties of routing and intent classification (under Spec)
\* ------------------------------------------------------------------------

\* the number of keywords of a list that the lower-cased question contains
aiVoiceScore(q) == keywordScore(toLowerCase(q), aiVoiceKeywords)
txqlScore(q) == keywordScore(toLowerCase(q), txqlKeywords)

\* C11: determineSystem returns aivoice exactly when the lower-cased question
\* contains strictly more aivoice keywords than txql keywords, and txql in
\* every other case (a tie, zero-zero included).
C11_StrictMajorityRoutes ==
  targetSystem # "" =>
    /\ targetSystem \in {"aivoice", "txql"}
    /\ targetSystem = "aivoice" <=> aiVoiceScore(question) > txqlScore(question)

\* a question with as many keywords of one list as of the other, and not
\* zero, has been routed
C11_Witness ==
  /\ targetSystem = "txql"
  /\ aiVoiceScore(question) = txqlScore(question)
  /\ aiVoiceScore(question) > 0


\* the AI-Voice branch has classified the question
Classified == targetSystem = "aivoice" /\ pc # "aivoice"

\* the keyword-match count of the k-th intent of count, filter, content,
\* analysis
intentCount(k) == intentConfidence(intentNames[k], toLowerCase(processQuery))

\* C12: classifyAIVoiceIntent returns exactly one value: the intent with the
\* highest keyword-match count, ties broken by the fixed priority count >
\* filter > content > analysis, and null exactly when every count is 0.
C12_HighestCountThenPriority ==
  Classified =>
    /\ intent = NullStr <=> \A k \in 1..Len(intentNames) : intentCount(k) = 0
    /\ intent # NullStr =>
         \E k \in 1..Len(intentNames) :
           /\ intent = intentNames[k]
           /\ \A j \in 1..Len(intentNames) :
                /\ intentCount(j) <= intentCount(k)
                /\ j < k => intentCount(j) < intentCount(k)

\* two intents have the highest count, and the one of higher priority is
\* returned
C12_Witness ==
  /\ Classified
  /\ \E k \in 1..Len(intentNames) : \E j \in (k + 1)..Len(intentNames) :
       /\ intent = intentNames[k]
       /\ intentCount(j) = intentCount(k)
       /\ intentCount(k) > 0

\* C13: a question containing a count phrase such as "how many" is never
\* classified as filter, however many filter verbs (show, list, find, where,
\* ...) it also contains.
C13_HowManyNeverFilter ==
  (Classified /\ includes(toLowerCase(processQuery), "how many")) => intent # "filter"

\* C14: a non-greeting question routed to aivoice with no key prefix, no
\* direction keyword and a null intent takes no AI-Voice fast path and falls
\* through to the open-ended fallback: its request does not end in an
\* internal-error response.
C14_NullIntentFallsThrough ==
  (/\ pc = "done"
   /\ targetSystem = "aivoice"
   /\ ~keyPrefixed(question)
   /\ ~isCallDirectionQuery(processQuery)
   /\ intent = NullStr) =>
    /\ handler \notin {"licenseKey", "direction", "entity"}
    /\ status # 500


\* ------------------------------------------------------------------------
\* Properties of date resolution (under Spec)
\* ------------------------------------------------------------------------

\* the valid YYYY-MM-DD dates a question names, left to right
explicitDates(q) == SelectSeq(isoDatesFrom(q, 1), validateDateFormat)

\* the range from a date to itself
singleDay(d) == <<[startDate |-> d, endDate |-> d]>>

\* queryTXQL has extracted the entities of the question
Extracted == targetSystem = "txql" /\ pc # "txql" /\ trim(queryToProcess) # ""

\* C15: explicit YYYY-MM-DD dates win over keyword phrases (today, yesterday,
\* this/last week, this/last month): a question with one explicit valid date
\* resolves to that date as both startDate and endDate, also when it holds a
\* keyword phrase, on the AI-Voice context resolution and on the TXQL entity
\* extraction.
C15_ExplicitDateWins ==
  /\ (Classified /\ Len(explicitDates(processQuery)) = 1) =>
       contextDates = singleDay(explicitDates(processQuery)[1])
  /\ (Extracted /\ Len(explicitDates(queryToProcess)) = 1) =>
       entities.dateRange = singleDay(explicitDates(queryToProcess)[1])

\* a YYYY-MM-DD date as a number, for comparison
isoNumber(d) == parseInt(SubSeq(d, 1, 4) \o SubSeq(d, 6, 7) \o SubSeq(d, 9, 10))

\* d is a valid date written YYYY-MM-DD
validIsoDate(d) == Len(d) = 10 /\ explicitDates(d) = <<d>>

\* C16: every date range the date resolver produces is null or has both
\* fields valid YYYY-MM-DD dates with startDate <= endDate, for every
\* question, those with two or more explicit dates in any order included.
C16_RangeOrdered ==
  (Classified /\ contextDates # NoDates) =>
    /\ validIsoDate(contextDates[1].startDate)
    /\ validIsoDate(contextDates[1].endDate)
    /\ isoNumber(contextDates[1].startDate) <= isoNumber(contextDates[1].endDate)


\* ------------------------------------------------------------------------
\* Properties of the retry loop of queryTXQL (under FairSpec)
\* ------------------------------------------------------------------------

\* a fetch that gets no reply ends with an error (the timer of the timeout
\* aborts it) and the wait after it ends; the code after the loop runs to
\* its end (it returns or throws)
FairSpec ==
  /\ Spec
  /\ WF_vars(TxqlThrows)
  /\ WF_pc(pc = "exhausted" /\ pc' \in {"done", "threw"})

\* the retry loop has been entered
InLoop == attempt >= 1

\* the attempts that have failed so far
failedAttempts == attempt - 1

\* the wait the loop is to make after its k-th failed attempt
backoff(k) == IF k = 1 THEN 1000 ELSE IF k = 2 THEN 2000 ELSE IF k = 3 THEN 4000 ELSE 5000

C17_AtMostMaxRetries ==
  InLoop => /\ failedAttempts <= maxRetries
            /\ (pc = "fetch" => attempt <= maxRetries)

C17_Backoff ==
  InLoop => /\ Len(waits) = (IF failedAttempts < maxRetries THEN failedAttempts
                             ELSE Max(maxRetries - 1, 0))
            /\ \A k \in 1..Len(waits) : waits[k] = backoff(k)

C17_TimeoutRetried ==
  (InLoop /\ lastError = "AbortError" /\ attempt <= maxRetries /\ pc # "done") =>
    pc = "fetch"

\* C17: queryTXQL issues at most maxRetries requests, waits
\* min(1000 * 2^(k-1), 5000) ms after the k-th failed attempt before attempt
\* k+1 and waits nothing after the last attempt, retries after a timeout
\* abort as after any failure, and always comes to an end.
C17_RetryBoundedBackoffTerminates ==
  /\ [](C17_AtMostMaxRetries /\ C17_Backoff /\ C17_TimeoutRetried)
  /\ (pc \in {"fetch", "exhausted"}) ~> (pc \in {"done", "threw"})

\* five attempts, each timed out or failed: four waits, the last one capped
C17_Witness ==
  /\ maxRetries = 5
  /\ waits = <<1000, 2000, 4000, 5000>>
  /\ lastError = "AbortError"
  /\ pc = "done" /\ handler = "txql" /\ status = 500

\* the last attempt ended with the throw on a 4xx status of the TXQL service
clientError == includes(lastError, "status 4")

\* C18: a 4xx response from a backend is never retried: after a 4xx status
\* of the TXQL service no further attempt is made, and a failed call of the
\* SQL executor is the only call of the request; the failure ends the
\* request at once.
C18_ClientErrorNotRetried ==
  /\ clientError => pc # "fetch"
  /\ patientLookup = "failed" => (pc = "done" /\ Len(executed) = 1)


\* ------------------------------------------------------------------------
\* Properties of the results and of the answers (under Spec)
\* ------------------------------------------------------------------------

\* queryTXQL ended with a throw instead of a result
queryTXQLThrew == pc = "threw" \/ (handler = "catch" /\ attempt >= 1)

\* C19: every backend adapter returns a typed {success, ...} result and
\* never throws, for every outcome and every argument value, a maxRetries
\* of 0 in the body of /api/txql/chat included.
C19_AdaptersNeverThrow == ~queryTXQLThrew

\* every attempt on the TXQL service failed and no note query stood in
txqlUnreachable ==
  /\ attempt > maxRetries
  /\ lastError # NullStr
  /\ \A i \in 1..Len(executed) : executed[i].path # "retryFallback"

\* the answer is 500 and carries a friendlyError apart from the raw error
failureAnswer ==
  /\ status = 500
  /\ body.friendlyError # NullStr
  /\ body.friendlyError # body.error

\* C20: /api/chat answers 400 when the question is missing, and answers
\* every backend failure (TXQL unreachable, a failed call of the SQL
\* executor, a failed AI-Voice call) with status 500 and a body that carries
\* friendlyError distinct from the raw error.
C20_FailuresAnswered ==
  (endpoint = "chat" /\ pc = "done") =>
    /\ question = "" => status = 400
    /\ txqlUnreachable => failureAnswer
    /\ patientLookup = "failed" => failureAnswer
    /\ (handler \in {"licenseKey", "direction", "entity"} /\ status = 500) =>
         failureAnswer


\* ------------------------------------------------------------------------
\* Properties of fetchCallDetails (under SpecFetch)
\* ------------------------------------------------------------------------

\* the pages a successful call is to hold: those the service returned, in
\* the order of their numbers, a page without rows aside
expectedPages ==
  SelectSeq([k \in 1..Len(served) |-> [page |-> k, rows |-> served[k]]],
            LAMBDA c : c.rows > 0)

C21_PagesInOrder ==
  /\ requested = [k \in 1..Len(requested) |-> k]
  /\ Len(requested) <= 50
  /\ \A k \in 1..Len(served) : k < Len(requested) => served[k] = 1000
  /\ (fetchPc = "loop" /\ hasMoreData) =>
        (served # <<>> => served[Len(served)] = 1000)
  /\ (fetchPc = "loop" /\ ~hasMoreData) =>
        (served[Len(served)] # 1000 \/ Len(requested) = 50)
  /\ (fetchPc = "returned" /\ callResult.success) =>
        /\ callResult.data = expectedPages
        /\ callResult.count = rowCount(expectedPages)

\* C21: fetchCallDetails requests the pages 1, 2, 3, ... one after the
\* other, goes on exactly while the last page held 1000 rows, stops at the
\* first page with fewer rows, never requests more than 50 pages and always
\* comes to an end; a successful result holds the rows of all the pages
\* fetched, in page order.
C21_PaginationBoundedOrdered ==
  /\ []C21_PagesInOrder
  /\ <>(fetchPc = "returned")

\* fifty full pages: the loop stops at the limit and returns 50,000 rows
C21_Witness ==
  /\ fetchPc = "returned" /\ callResult.success
  /\ Len(requested) = 50
  /\ callResult.count = 50000


\* ------------------------------------------------------------------------
\* Properties of the sessions (under SpecSessions)
\* ------------------------------------------------------------------------

\* C22: the session map is changed only by the get-or-create and cleanup
\* operations: no other operation reachable from an HTTP request adds,
\* replaces or removes an entry of activeSessions.
C22_MapChangedByTwoOperations ==
  [][activeSessions' # activeSessions => (BeginChat \/ cleanupOldSessions)]_vars

\* C23: the session map is the only mutable state the requests share: a
\* response holds nothing that an earlier request of another caller stored;
\* the call rows in a response of /api/ask are those of its own request.
C23_NothingOfAnotherCaller ==
  askResponse.callHistory \in {<<>>, <<askResponse.caller>>}

\* the session object the map holds for a user
held(map, u) == map[sessionKey(u)]

C24_GetOrCreate(u) ==
  /\ sessionKey(u) \in DOMAIN activeSessions'
  /\ sessionObjects'[held(activeSessions', u)].lastActive = now
  /\ IF sessionKey(u) \in DOMAIN activeSessions
       THEN /\ held(activeSessions', u) = held(activeSessions, u)
            /\ sessionObjects'[held(activeSessions', u)].sessionId =
                 sessionObjects[held(activeSessions, u)].sessionId
            /\ sessionObjects'[held(activeSessions', u)].txqlSessionId =
                 sessionObjects[held(activeSessions, u)].txqlSessionId
     ELSE /\ held(activeSessions', u) \notin DOMAIN sessionObjects
          /\ sessionObjects'[held(activeSessions', u)].conversationHistory = <<>>

C24_Sweep ==
  /\ DOMAIN activeSessions' =
       {k \in DOMAIN activeSessions :
          now - sessionObjects[activeSessions[k]].lastActive <= 30}
  /\ \A k \in DOMAIN activeSessions' : activeSessions'[k] = activeSessions[k]

\* C24: a session is created on the first getOrCreateSession for a userId,
\* keeps its sessionId and txqlSessionId on every later call, has lastActive
\* refreshed on every call, and a sweep removes exactly the sessions whose
\* inactivity exceeds 30 minutes.
C24_SessionLifecycle ==
  [][/\ \A u \in Users : BeginChatOf(u) => C24_GetOrCreate(u)
     /\ cleanupOldSessions => C24_Sweep]_vars

\* a session at the edge of the window is in the map and one past it is not
C24_Witness ==
  /\ \E k \in DOMAIN activeSessions :
       now - sessionObjects[activeSessions[k]].lastActive = 30
  /\ \E id \in DOMAIN sessionObjects :
       /\ now - sessionObjects[id].lastActive > 30
       /\ \A k \in DOMAIN activeSessions : activeSessions[k] # id

\* the request of u pushes its turn in this step
pushes(u) == CompleteChatOf(u, TRUE) /\ sessionObjects' # sessionObjects

\* C30: under any interleaving of requests of /api/chat with the sweep and
\* the session-delete endpoint, the turn of a request that completed is
\* pushed onto the session the map holds for its userId at that moment,
\* and the history of a session only grows.
C30_TurnGoesToTheMappedSession ==
  [][/\ \A u \in Users :
          pushes(u) => /\ sessionKey(u) \in DOMAIN activeSessions
                       /\ held(activeSessions, u) = inflight[u]
     /\ \A id \in DOMAIN sessionObjects :
          /\ Len(sessionObjects'[id].conversationHistory) >=
               Len(sessionObjects[id].conversationHistory)
          /\ SubSeq(sessionObjects'[id].conversationHistory, 1,
                    Len(sessionObjects[id].conversationHistory)) =
               sessionObjects[id].conversationHistory]_vars

\* ------------------------------------------------------------------------
\* Properties of the formatting of a result (under SpecFormat)
\* ------------------------------------------------------------------------

\* the records of the analysis that the stated precedence puts in a bucket
recordsIn(bucket) ==
  {i \in 1..Len(queryResults) :
     LET r == queryResults[i]
         remainingBalance ==
           r.ProcFee - r.InsPayAmt - r.WriteOff - r.Adjustments - r.Payments
         zero == r.ProcFee = 0
         paid == ~zero /\ remainingBalance <= 0
         partial == ~zero /\ ~paid /\
                    (r.InsPayAmt > 0 \/ r.Payments > 0 \/ r.WriteOff > 0)
     IN CASE bucket = "zeroCharge" -> zero
          [] bucket = "fullyPaid" -> paid
          [] bucket = "partiallyPaid" -> partial
          [] OTHER -> ~zero /\ ~paid /\ ~partial}

\* C25: after analyzePricingDetails every record has been counted in exactly
\* one of zeroCharge, fullyPaid, partiallyPaid and unpaid, the one the
\* precedence (fee = 0, then remaining balance <= 0, then an insurance
\* payment, a patient payment or a write-off > 0, else unpaid) gives it, and
\* the four counters sum to the number of records.
C25_OneBucketPerRecord ==
  (fmtStep = "analyzed" /\ analysis.success) =>
    /\ \A b \in {"zeroCharge", "fullyPaid", "partiallyPaid", "unpaid"} :
         analysis.paymentStatus[b] = Cardinality(recordsIn(b))
    /\ analysis.paymentStatus.zeroCharge + analysis.paymentStatus.fullyPaid +
       analysis.paymentStatus.partiallyPaid + analysis.paymentStatus.unpaid
         = Len(queryResults)

\* two records analysed, one without a fee whose balance is below zero and
\* one that is partially paid
C25_Witness ==
  /\ fmtStep = "analyzed" /\ analysis.success
  /\ Len(queryResults) = 2
  /\ queryResults[1].ProcFee = 0 /\ queryResults[1].Payments > 0
  /\ analysis.paymentStatus.zeroCharge = 1
  /\ analysis.paymentStatus.partiallyPaid = 1

\* C26: insuranceCoverage is at least 0 whenever totalBilled > 0, and is
\* the zero value whenever totalBilled = 0.
C26_CoverageNotNegative ==
  (fmtStep = "analyzed" /\ analysis.success) =>
    /\ analysis.financial.totalBilled > 0 =>
         analysis.financial.insuranceCoverage >= 0
    /\ analysis.financial.totalBilled = 0 =>
         analysis.financial.insuranceCoverage = 0

\* C27: formatSQLResults runs the payment analyzer only when the question
\* is a pricing-analysis request and the columns of the result include a
\* financial field.
C27_AnalyzerOnlyForPricingQuestions ==
  (fmtStep = "formatted" /\ formatted.kind = "analysis") =>
    /\ isPricingAnalysisQuery(originalQuestion)
    /\ hasPaymentColumns(DOMAIN sqlResults.rows[1])

\* C28: for a failed execution formatSQLResults returns the error text, for
\* an empty row set the zero-records text; both hold the SQL text, and the
\* summarizer is not called, whatever the question.
C28_FailureAndEmptyBeforeSummary ==
  fmtStep = "formatted" =>
    /\ (~sqlResults.success \/ sqlResults.shape = "null") =>
         /\ formatted.kind = "failed"
         /\ includes(formatted.text, "Query Execution Failed")
         /\ includes(formatted.text, fmtQuery)
         /\ ~formatted.summarizer
    /\ (sqlResults.success /\ sqlResults.shape # "null"
        /\ (sqlResults.shape = "object" \/ sqlResults.rows = <<>>)) =>
         /\ formatted.kind = "empty"
         /\ includes(formatted.text, "Records Found:** 0")
         /\ includes(formatted.text, fmtQuery)
         /\ ~formatted.summarizer
    /\ formatted.summarizer =>
         /\ sqlResults.success /\ sqlResults.rows # <<>>
         /\ sqlResults.shape \in {"array", "wrapped"}

\* a failed execution formatted for a question that asks for a summary of
\* the notes
C28_Witness ==
  /\ fmtStep = "formatted"
  /\ ~sqlResults.success
  /\ isNoteSummaryQuery(originalQuestion)
  /\ formatted.kind = "failed"

\* C29: the string cleanValue returns holds no newline, carriage return or
\* tab and no pipe, and is at most MAX_CHAR_LENGTH characters long.
C29_CellIsOneShortLine ==
  fmtStep = "cleaned" =>
    /\ \A c \in {"\n", "\r", "\t", "|"} : ~includes(cleaned, c)
    /\ Len(cleaned) <= MAX_CHAR_LENGTH

====
